---- MODULE Spec2Model ----
(***************************************************************************)
(* A model of the kilo-style terminal text editor in src/kilo.c: the line  *)
(* buffer (erow), tab expansion, the cursor, the scroll controller, the    *)
(* key decoder and the key dispatcher of the main loop.                    *)
(*                                                                         *)
(* Bytes are integers 0..255.  C arrays are 0-based, TLA+ sequences are    *)
(* 1-based: slot i of E.row is E.row[i+1], byte j of chars is chars[j+1].  *)
(***************************************************************************)
EXTENDS Integers, Sequences, FiniteSets, TLC

VARIABLES E, quit_times, pc, c, stdin, buf

vars == <<E, quit_times, pc, c, stdin, buf>>

----------------------------------------------------------------------------
(* Program constants                                                       *)

KILO_TAB_STOP == 8
KILO_QUIT_TIMES == 3
\* The seconds a status message is shown for.
MessageSeconds == 5

BACKSPACE == 127
ARROW_LEFT == 1000
ARROW_RIGHT == 1001
ARROW_UP == 1002
ARROW_DOWN == 1003
DEL_KEY == 1004
HOME_KEY == 1005
END_KEY == 1006
PAGE_UP == 1007
PAGE_DOWN == 1008

\* CTRL_KEY(k) is k & 0x1f: the low five bits of the byte.
CTRL_KEY(k) == k % 32

ESC == 27
TAB == 9
LF == 10
CR == 13
SPACE == 32
\* The bytes of the escape sequences: '[' 'O' '~' 'A'..'D' 'F' 'H' '0'..'9'.
LBRACKET == 91
LETTER_O == 79
TILDE == 126
LETTER_A == 65
LETTER_B == 66
LETTER_C == 67
LETTER_D == 68
LETTER_F == 70
LETTER_H == 72
DIGIT_0 == 48
DIGIT_9 == 57
\* The bytes of Ctrl-H, Ctrl-L, Ctrl-Q and Ctrl-S.
CTRL_H == CTRL_KEY(104)
CTRL_L == CTRL_KEY(108)
CTRL_Q == CTRL_KEY(113)
CTRL_S == CTRL_KEY(115)
\* The text typed and found in files, "a", and its byte.
Text == <<97>>
Letter == Head(Text)

\* A byte as the value of the plain char that read() stores it in (char is
\* signed on x86-64), and a char or int as the byte a char array keeps of it.
CharOf(b) == IF b >= 128 THEN b - 256 ELSE b
ByteOf(k) == k % 256

\* c before any key was read in the current iteration of the main loop.
NoKey == 0 - 1000
\* What read() delivers instead of a byte when it fails (returns -1).
ReadErr == 0 - 1
\* E.filename when it is NULL.
NoName == <<>>

----------------------------------------------------------------------------
(* Bounds of the model                                                     *)

\* Most lines a document holds, and most bytes over all its lines.
MaxRows == 2
MaxBytes == 2
\* ARROW_DOWN and Enter are not taken once the cursor row has reached this.
MaxCy == MaxRows + 1
\* Longest file read at startup: MaxBytes bytes and MaxRows line ends.
MaxFileLen == MaxBytes + MaxRows
\* The text areas tried: <<screenrows, screencols>>.
ScreenSizes == {<<1, 1>>, <<2, 3>>}
\* Longest file name typed at the save-as prompt.
MaxName == 1
\* The clock, time(NULL) in seconds, starts at StartTime, well after the
\* instant 0 that initEditor puts in E.statusmsg_time, and runs for MaxTime
\* seconds.
MaxTime == 7
StartTime == 2 * MessageSeconds

----------------------------------------------------------------------------
(* Line buffer and coordinate translator                                   *)

\* chars[j] for j in 0..size: a byte of the row, or the terminating NUL.
CharAt(r, j) == IF j = Len(r.chars) THEN 0 ELSE r.chars[j + 1]

RECURSIVE Spaces(_)
Spaces(n) == IF n <= 0 THEN <<>> ELSE <<SPACE>> \o Spaces(n - 1)

\* The loop of editorUpdateRow from byte j on, idx being Len(out): a tab
\* writes one space and then spaces until idx is a multiple of the tab stop.
RECURSIVE RenderLoop(_, _, _)
RenderLoop(chars, j, out) ==
    IF j > Len(chars) THEN out
    ELSE IF chars[j] = TAB
         THEN LET idx1 == Len(out) + 1
                  pad == (KILO_TAB_STOP - (idx1 % KILO_TAB_STOP)) % KILO_TAB_STOP
              IN  RenderLoop(chars, j + 1, out \o <<SPACE>> \o Spaces(pad))
         ELSE RenderLoop(chars, j + 1, out \o <<chars[j]>>)

editorUpdateRow(r) ==
    LET out == RenderLoop(r.chars, 1, <<>>)
    IN  [r EXCEPT !.render = out, !.rsize = Len(out)]

\* CxtoRxLoop with a tab advancing a whole tab stop before the rx++.
RECURSIVE CxtoRxLoop_WholeStop(_, _, _, _)
CxtoRxLoop_WholeStop(r, j, cx, rx) ==
    IF j >= cx THEN rx
    ELSE LET rx1 == IF CharAt(r, j) = TAB
                    THEN rx + KILO_TAB_STOP - (rx % KILO_TAB_STOP)
                    ELSE rx
         IN  CxtoRxLoop_WholeStop(r, j + 1, cx, rx1 + 1)

\* rx after the first cx bytes of the row.
RECURSIVE CxtoRxLoop(_, _, _, _)
CxtoRxLoop(r, j, cx, rx) ==
    IF j >= cx THEN rx
    ELSE LET rx1 == IF CharAt(r, j) = TAB
                    THEN rx + (KILO_TAB_STOP - 1) - (rx % KILO_TAB_STOP)
                    ELSE rx
         IN  CxtoRxLoop(r, j + 1, cx, rx1 + 1)

editorRowCxtoRx(r, cx) == CxtoRxLoop(r, 0, cx, 0)

\* A row as editorInsertRow builds it from len bytes of s.
NewRow(s) == editorUpdateRow([size |-> Len(s), rsize |-> 0, chars |-> s, render |-> <<>>])

----------------------------------------------------------------------------
(* Storage behind E.row                                                    *)
(*                                                                         *)
(* E.row has numrows slots.  &E.row[i] with i outside 0..numrows-1 is an   *)
(* access outside the array: undefined behaviour.  What the slot holds is  *)
(* chosen by the caller from Indeterminate: the access faults (the process *)
(* is killed), or it finds zeroed memory, or it finds the stale erow that  *)
(* an earlier editorDelRow left behind.  Writes through such a slot land   *)
(* outside the document and leave slots 0..numrows-1 as they are.          *)

ZeroRow == [size |-> 0, rsize |-> 0, chars |-> <<>>, render |-> <<>>]
StaleRow == NewRow(<<Letter>>)
Indeterminate ==
    { [fault |-> TRUE, row |-> ZeroRow],
      [fault |-> FALSE, row |-> ZeroRow],
      [fault |-> FALSE, row |-> StaleRow] }

InDoc(e, i) == i >= 0 /\ i < e.numrows
\* The erow read through &E.row[i].
Slot(e, i, g) == IF InDoc(e, i) THEN e.row[i + 1] ELSE g.row
\* The effect of dereferencing &E.row[i] on the process.
Deref(e, i, g) ==
    IF InDoc(e, i) THEN e ELSE [e EXCEPT !.oob = TRUE, !.fault = @ \/ g.fault]
\* E.row[i] = r.
Store(e, i, r) == IF InDoc(e, i) THEN [e EXCEPT !.row[i + 1] = r] ELSE e

\* E.dirty++ : the model keeps whether dirty is nonzero.
Dirty(e) == [e EXCEPT !.dirty = 1]

InsertAt(seq, i, x) == SubSeq(seq, 1, i) \o <<x>> \o SubSeq(seq, i + 1, Len(seq))
RemoveAt(seq, i) == SubSeq(seq, 1, i) \o SubSeq(seq, i + 2, Len(seq))

editorInsertRow(e, at, s) ==
    IF at < 0 \/ at > e.numrows THEN e
    ELSE Dirty([e EXCEPT !.row = InsertAt(@, at, NewRow(s)),
                         !.numrows = @ + 1])

\* editorDelRow that also accepts at = numrows.
editorDelRow_Inclusive(e, at) ==
    IF at < 0 \/ at > e.numrows THEN e
    ELSE Dirty([e EXCEPT !.row = RemoveAt(@, at), !.numrows = @ - 1])

editorDelRow(e, at) ==
    IF at < 0 \/ at >= e.numrows THEN e
    ELSE Dirty([e EXCEPT !.row = RemoveAt(@, at), !.numrows = @ - 1])

\* editorRowInsertChar without E.dirty++.
editorRowInsertChar_Clean(e, i, g, at, ch) ==
    LET r == Slot(e, i, g)
        at1 == IF at < 0 \/ at > r.size THEN r.size ELSE at
        r1 == editorUpdateRow([r EXCEPT !.chars = InsertAt(@, at1, ByteOf(ch)),
                                        !.size = @ + 1])
    IN  Store(Deref(e, i, g), i, r1)

\* editorRowInsertChar that puts the byte at the end of the line.
editorRowInsertChar_Append(e, i, g, at, ch) ==
    LET r == Slot(e, i, g)
        r1 == editorUpdateRow([r EXCEPT !.chars = InsertAt(@, r.size, ByteOf(ch)),
                                        !.size = @ + 1])
    IN  Dirty(Store(Deref(e, i, g), i, r1))

\* editorRowInsertChar(&E.row[i], at, ch)
editorRowInsertChar(e, i, g, at, ch) ==
    LET r == Slot(e, i, g)
        at1 == IF at < 0 \/ at > r.size THEN r.size ELSE at
        r1 == editorUpdateRow([r EXCEPT !.chars = InsertAt(@, at1, ByteOf(ch)),
                                        !.size = @ + 1])
    IN  Dirty(Store(Deref(e, i, g), i, r1))

\* editorRowAppendString that puts s in front of the bytes of the row.
editorRowAppendString_Prepend(e, i, g, s) ==
    LET r == Slot(e, i, g)
        r1 == editorUpdateRow([r EXCEPT !.chars = s \o @,
                                        !.size = @ + Len(s)])
    IN  Dirty(Store(Deref(e, i, g), i, r1))

\* editorRowAppendString(&E.row[i], s, len)
editorRowAppendString(e, i, g, s) ==
    LET r == Slot(e, i, g)
        r1 == editorUpdateRow([r EXCEPT !.chars = @ \o s,
                                        !.size = @ + Len(s)])
    IN  Dirty(Store(Deref(e, i, g), i, r1))

\* editorRowDelChar without its call of editorUpdateRow.
editorRowDelChar_NoUpdate(e, i, g, at) ==
    LET r == Slot(e, i, g)
        r1 == [r EXCEPT !.chars = RemoveAt(@, at), !.size = @ - 1]
    IN  IF at < 0 \/ at >= r.size THEN Deref(e, i, g)
        ELSE Dirty(Store(Deref(e, i, g), i, r1))

\* editorRowDelChar(&E.row[i], at)
editorRowDelChar(e, i, g, at) ==
    LET r == Slot(e, i, g)
        r1 == editorUpdateRow([r EXCEPT !.chars = RemoveAt(@, at),
                                        !.size = @ - 1])
    IN  IF at < 0 \/ at >= r.size THEN Deref(e, i, g)
        ELSE Dirty(Store(Deref(e, i, g), i, r1))

----------------------------------------------------------------------------
(* Edit engine                                                             *)

\* editorInsertChar without its last statement, E.cx++.
editorInsertChar_NoAdvance(e, g, ch) ==
    LET e1 == IF e.cy = e.numrows THEN editorInsertRow(e, e.numrows, <<>>) ELSE e
    IN  editorRowInsertChar(e1, e1.cy, g, e1.cx, ch)

editorInsertChar(e, g, ch) ==
    LET e1 == IF e.cy = e.numrows THEN editorInsertRow(e, e.numrows, <<>>) ELSE e
        e2 == editorRowInsertChar(e1, e1.cy, g, e1.cx, ch)
    IN  [e2 EXCEPT !.cx = @ + 1]

\* editorInsertNewline without its last assignment, E.cx = 0.
editorInsertNewline_KeepCx(e, g) ==
    LET e1 == IF e.cx = 0
              THEN editorInsertRow(e, e.cy, <<>>)
              ELSE IF InDoc(e, e.cy) /\ e.cx > e.row[e.cy + 1].size
              THEN [e EXCEPT !.oob = TRUE, !.fault = TRUE]
              ELSE LET row == Slot(e, e.cy, g)
                       d1 == editorInsertRow(Deref(e, e.cy, g), e.cy + 1,
                                             SubSeq(row.chars, e.cx + 1, row.size))
                       row1 == Slot(d1, d1.cy, g)
                       row2 == editorUpdateRow([row1 EXCEPT
                                   !.size = e.cx,
                                   !.chars = SubSeq(@, 1, e.cx)])
                   IN  Store(d1, d1.cy, row2)
    IN  [e1 EXCEPT !.cy = @ + 1]

\* With cx beyond the end of a line of the document, row->size - E.cx is
\* negative, the size_t length handed to editorInsertRow is larger than any
\* object and its memcpy faults.
editorInsertNewline(e, g) ==
    LET e1 == IF e.cx = 0
              THEN editorInsertRow(e, e.cy, <<>>)
              ELSE IF InDoc(e, e.cy) /\ e.cx > e.row[e.cy + 1].size
              THEN [e EXCEPT !.oob = TRUE, !.fault = TRUE]
              ELSE LET row == Slot(e, e.cy, g)
                       d1 == editorInsertRow(Deref(e, e.cy, g), e.cy + 1,
                                             SubSeq(row.chars, e.cx + 1, row.size))
                       row1 == Slot(d1, d1.cy, g)
                       row2 == editorUpdateRow([row1 EXCEPT
                                   !.size = e.cx,
                                   !.chars = SubSeq(@, 1, e.cx)])
                   IN  Store(d1, d1.cy, row2)
    IN  [e1 EXCEPT !.cy = @ + 1, !.cx = 0]

\* editorDeleteChar without the return at row 0, column 0.
editorDeleteChar_NoStartGuard(e, g) ==
    IF e.cy = e.numrows THEN e
    ELSE IF e.cx > 0
         THEN [editorRowDelChar(e, e.cy, g, e.cx - 1) EXCEPT !.cx = @ - 1]
         ELSE LET row == Slot(e, e.cy, g)
                  prev == Slot(e, e.cy - 1, g)
                  e1 == [Deref(Deref(e, e.cy, g), e.cy - 1, g) EXCEPT !.cx = prev.size]
                  e2 == editorRowAppendString(e1, e1.cy - 1, g, row.chars)
                  e3 == editorDelRow(e2, e2.cy)
              IN  [e3 EXCEPT !.cy = @ - 1]

editorDeleteChar(e, g) ==
    IF e.cy = e.numrows THEN e
    ELSE IF e.cx = 0 /\ e.cy = 0 THEN e
    ELSE IF e.cx > 0
         THEN [editorRowDelChar(e, e.cy, g, e.cx - 1) EXCEPT !.cx = @ - 1]
         ELSE LET row == Slot(e, e.cy, g)
                  prev == Slot(e, e.cy - 1, g)
                  e1 == [Deref(Deref(e, e.cy, g), e.cy - 1, g) EXCEPT !.cx = prev.size]
                  e2 == editorRowAppendString(e1, e1.cy - 1, g, row.chars)
                  e3 == editorDelRow(e2, e2.cy)
              IN  [e3 EXCEPT !.cy = @ - 1]

----------------------------------------------------------------------------
(* Cursor movement and scrolling                                           *)

\* The snap at the end of editorMoveCursor.
SnapCx(e) ==
    LET rowlen == IF e.cy >= e.numrows THEN 0 ELSE e.row[e.cy + 1].size
    IN  IF e.cx > rowlen THEN [e EXCEPT !.cx = rowlen] ELSE e

editorMoveCursor(e, g, key) ==
    LET hasrow == ~(e.cy >= e.numrows)
        rowsize == IF hasrow THEN e.row[e.cy + 1].size ELSE 0
        moved ==
            CASE key = ARROW_LEFT ->
                     IF e.cx # 0 THEN [e EXCEPT !.cx = @ - 1]
                     ELSE IF e.cy > 0
                          THEN [Deref(e, e.cy - 1, g) EXCEPT
                                   !.cy = e.cy - 1,
                                   !.cx = Slot(e, e.cy - 1, g).size]
                          ELSE e
              [] key = ARROW_RIGHT ->
                     IF hasrow /\ e.cx < rowsize THEN [e EXCEPT !.cx = @ + 1]
                     ELSE IF hasrow /\ e.cx = rowsize
                          THEN [e EXCEPT !.cy = @ + 1, !.cx = 0]
                          ELSE e
              [] key = ARROW_UP ->
                     IF e.cy # 0 THEN [e EXCEPT !.cy = @ - 1] ELSE e
              [] key = ARROW_DOWN ->
                     IF e.cx < e.numrows THEN [e EXCEPT !.cy = @ + 1] ELSE e
              [] OTHER -> e
    IN  SnapCx(moved)

\* times calls of editorMoveCursor(key), as the loop of PAGE_UP/PAGE_DOWN makes.
RECURSIVE MoveTimes(_, _, _, _)
MoveTimes(e, g, key, times) ==
    IF times <= 0 THEN e
    ELSE MoveTimes(editorMoveCursor(e, g, key), g, key, times - 1)

\* editorScroll with > for >= in the bottom and right clamps.
editorScroll_Strict(e) ==
    LET rx == IF e.cy < e.numrows
              THEN editorRowCxtoRx(e.row[e.cy + 1], e.cx)
              ELSE 0
        ro1 == IF e.cy < e.rowoff THEN e.cy ELSE e.rowoff
        ro2 == IF e.cy > ro1 + e.screenrows THEN e.cy - e.screenrows + 1 ELSE ro1
        co1 == IF rx < e.coloff THEN rx ELSE e.coloff
        co2 == IF rx > co1 + e.screencols THEN rx - e.screencols + 1 ELSE co1
    IN  [e EXCEPT !.rx = rx, !.rowoff = ro2, !.coloff = co2]

\* editorScroll whose top and left clamps also fire for a cursor on the
\* first visible row or column, and then step one past it.
editorScroll_Eager(e) ==
    LET rx == IF e.cy < e.numrows
              THEN editorRowCxtoRx(e.row[e.cy + 1], e.cx)
              ELSE 0
        ro1 == IF e.cy <= e.rowoff /\ e.cy > 0 THEN e.cy - 1 ELSE e.rowoff
        ro2 == IF e.cy >= ro1 + e.screenrows THEN e.cy - e.screenrows + 1 ELSE ro1
        co1 == IF rx <= e.coloff /\ rx > 0 THEN rx - 1 ELSE e.coloff
        co2 == IF rx >= co1 + e.screencols THEN rx - e.screencols + 1 ELSE co1
    IN  [e EXCEPT !.rx = rx, !.rowoff = ro2, !.coloff = co2]

\* editorScroll with the bottom and right clamps a full screen, not a
\* screen less one, behind the cursor: it shows the cursor there, one step
\* further than needed.
editorScroll_FullPage(e) ==
    LET rx == IF e.cy < e.numrows
              THEN editorRowCxtoRx(e.row[e.cy + 1], e.cx)
              ELSE 0
        ro1 == IF e.cy < e.rowoff THEN e.cy ELSE e.rowoff
        ro2 == IF e.cy >= ro1 + e.screenrows THEN e.cy ELSE ro1
        co1 == IF rx < e.coloff THEN rx ELSE e.coloff
        co2 == IF rx >= co1 + e.screencols THEN rx ELSE co1
    IN  [e EXCEPT !.rx = rx, !.rowoff = ro2, !.coloff = co2]

editorScroll(e) ==
    LET rx == IF e.cy < e.numrows
              THEN editorRowCxtoRx(e.row[e.cy + 1], e.cx)
              ELSE 0
        ro1 == IF e.cy < e.rowoff THEN e.cy ELSE e.rowoff
        ro2 == IF e.cy >= ro1 + e.screenrows THEN e.cy - e.screenrows + 1 ELSE ro1
        co1 == IF rx < e.coloff THEN rx ELSE e.coloff
        co2 == IF rx >= co1 + e.screencols THEN rx - e.screencols + 1 ELSE co1
    IN  [e EXCEPT !.rx = rx, !.rowoff = ro2, !.coloff = co2]

\* The cursor position editorRefreshScreen writes as ESC [ row ; col H.
FrameCursor(e) == <<(e.cy - e.rowoff) + 1, (e.rx - e.coloff) + 1>>

\* E.time is what time(NULL) returns.
editorSetStatusMessage(e, fmt, arg) ==
    [e EXCEPT !.statusmsg = <<fmt, arg>>, !.statusmsg_time = e.time]

\* The message bar of a frame that shows no message.
NoBar == <<>>

\* editorDrawMessageBar showing a message up to and including its 5th second.
editorDrawMessageBar_Inclusive(e) ==
    IF e.statusmsg[1] # "" /\ e.time - e.statusmsg_time <= MessageSeconds
    THEN e.statusmsg
    ELSE NoBar

\* The message the frame shows in the message bar (the first screencols
\* bytes of it), or NoBar.
editorDrawMessageBar(e) ==
    IF e.statusmsg[1] # "" /\ e.time - e.statusmsg_time < MessageSeconds
    THEN e.statusmsg
    ELSE NoBar

\* editorRefreshScreen: E.bar records the message bar of the frame.
editorRefreshScreen(e) == [editorScroll(e) EXCEPT !.bar = editorDrawMessageBar(e)]

----------------------------------------------------------------------------
(* Key decoder                                                             *)
(*                                                                         *)
(* The input is the sequence of what successive read() calls deliver: a    *)
(* byte, or ReadErr for a failed call.  A read() on the empty sequence     *)
(* times out and returns 0.                                                *)

Rd(s) ==
    [ok |-> s # <<>> /\ Head(s) # ReadErr,
     b |-> IF s # <<>> /\ Head(s) # ReadErr THEN CharOf(Head(s)) ELSE 0,
     rest |-> IF s = <<>> THEN s ELSE Tail(s)]

\* TildeKey with the keys of ESC [ 4 ~ and ESC [ 5 ~ exchanged.
TildeKey_Exchanged(d) ==
    CASE d = 49 -> HOME_KEY
      [] d = 51 -> DEL_KEY
      [] d = 52 -> PAGE_UP
      [] d = 53 -> END_KEY
      [] d = 54 -> PAGE_DOWN
      [] d = 55 -> HOME_KEY
      [] d = 56 -> END_KEY
      [] OTHER -> ESC

\* The key for ESC [ digit ~.
TildeKey(d) ==
    CASE d = 49 -> HOME_KEY
      [] d = 51 -> DEL_KEY
      [] d = 52 -> END_KEY
      [] d = 53 -> PAGE_UP
      [] d = 54 -> PAGE_DOWN
      [] d = 55 -> HOME_KEY
      [] d = 56 -> END_KEY
      [] OTHER -> ESC

\* The key for ESC [ letter.
BracketKey(b) ==
    CASE b = LETTER_A -> ARROW_UP
      [] b = LETTER_B -> ARROW_DOWN
      [] b = LETTER_C -> ARROW_RIGHT
      [] b = LETTER_D -> ARROW_LEFT
      [] b = LETTER_H -> HOME_KEY
      [] b = LETTER_F -> END_KEY
      [] OTHER -> ESC

\* OKey with the arrows of ESC O A/B/C/D decoded as well.
OKey_Arrows(b) ==
    CASE b = LETTER_H -> HOME_KEY
      [] b = LETTER_F -> END_KEY
      [] b = LETTER_A -> ARROW_UP
      [] b = LETTER_B -> ARROW_DOWN
      [] b = LETTER_C -> ARROW_RIGHT
      [] b = LETTER_D -> ARROW_LEFT
      [] OTHER -> ESC

\* The key for ESC O letter.
OKey(b) ==
    CASE b = LETTER_H -> HOME_KEY
      [] b = LETTER_F -> END_KEY
      [] OTHER -> ESC

\* editorReadKey that gives back what it read after an ESC it returns as
\* the key: only the ESC byte is taken from the input.
editorReadKey_PutBack(in) ==
    LET r0 == Rd(in)
        r1 == Rd(r0.rest)
        r2 == Rd(r1.rest)
        r3 == Rd(r2.rest)
        Ret(k, rest, n) == [key |-> k, rest |-> IF k = ESC THEN r0.rest ELSE rest,
                            reads |-> n, died |-> FALSE]
    IN  IF ~r0.ok THEN [key |-> NoKey, rest |-> r0.rest, reads |-> 0, died |-> TRUE]
        ELSE IF r0.b # ESC THEN Ret(r0.b, r0.rest, 0)
        ELSE IF ~r1.ok THEN Ret(ESC, r1.rest, 1)
        ELSE IF ~r2.ok THEN Ret(ESC, r2.rest, 2)
        ELSE IF r1.b = LBRACKET
             THEN IF r2.b >= DIGIT_0 /\ r2.b <= DIGIT_9
                  THEN IF ~r3.ok THEN Ret(ESC, r3.rest, 3)
                       ELSE IF r3.b = TILDE THEN Ret(TildeKey(r2.b), r3.rest, 3)
                       ELSE Ret(ESC, r3.rest, 3)
                  ELSE Ret(BracketKey(r2.b), r2.rest, 2)
        ELSE IF r1.b = LETTER_O THEN Ret(OKey(r2.b), r2.rest, 2)
        ELSE Ret(ESC, r2.rest, 2)

\* editorReadKey that reads a third byte after every ESC [, digit or not.
editorReadKey_ThirdAlways(in) ==
    LET r0 == Rd(in)
        r1 == Rd(r0.rest)
        r2 == Rd(r1.rest)
        r3 == Rd(r2.rest)
        Ret(k, rest, n) == [key |-> k, rest |-> rest, reads |-> n, died |-> FALSE]
    IN  IF ~r0.ok THEN [key |-> NoKey, rest |-> r0.rest, reads |-> 0, died |-> TRUE]
        ELSE IF r0.b # ESC THEN Ret(r0.b, r0.rest, 0)
        ELSE IF ~r1.ok THEN Ret(ESC, r1.rest, 1)
        ELSE IF ~r2.ok THEN Ret(ESC, r2.rest, 2)
        ELSE IF r1.b = LBRACKET
             THEN IF ~r3.ok THEN Ret(ESC, r3.rest, 3)
                  ELSE IF r2.b >= DIGIT_0 /\ r2.b <= DIGIT_9
                       THEN IF r3.b = TILDE THEN Ret(TildeKey(r2.b), r3.rest, 3)
                            ELSE Ret(ESC, r3.rest, 3)
                       ELSE Ret(BracketKey(r2.b), r3.rest, 3)
        ELSE IF r1.b = LETTER_O THEN Ret(OKey(r2.b), r2.rest, 2)
        ELSE Ret(ESC, r2.rest, 2)

\* editorReadKey on a non-empty input: the key returned, the input left
\* unread, the number of read() calls made after the first byte, and whether
\* the first read failed so that die("read") ended the process.
editorReadKey(in) ==
    LET r0 == Rd(in)
        r1 == Rd(r0.rest)
        r2 == Rd(r1.rest)
        r3 == Rd(r2.rest)
        Ret(k, rest, n) == [key |-> k, rest |-> rest, reads |-> n, died |-> FALSE]
    IN  IF ~r0.ok THEN [key |-> NoKey, rest |-> r0.rest, reads |-> 0, died |-> TRUE]
        ELSE IF r0.b # ESC THEN Ret(r0.b, r0.rest, 0)
        ELSE IF ~r1.ok THEN Ret(ESC, r1.rest, 1)
        ELSE IF ~r2.ok THEN Ret(ESC, r2.rest, 2)
        ELSE IF r1.b = LBRACKET
             THEN IF r2.b >= DIGIT_0 /\ r2.b <= DIGIT_9
                  THEN IF ~r3.ok THEN Ret(ESC, r3.rest, 3)
                       ELSE IF r3.b = TILDE THEN Ret(TildeKey(r2.b), r3.rest, 3)
                       ELSE Ret(ESC, r3.rest, 3)
                  ELSE Ret(BracketKey(r2.b), r2.rest, 2)
        ELSE IF r1.b = LETTER_O THEN Ret(OKey(r2.b), r2.rest, 2)
        ELSE Ret(ESC, r2.rest, 2)

----------------------------------------------------------------------------
(* Files                                                                   *)

\* The bytes of the next getline() result: up to and including the first LF.
RECURSIVE FirstLine(_)
FirstLine(bytes) ==
    IF bytes = <<>> THEN <<>>
    ELSE IF Head(bytes) = LF THEN <<LF>>
    ELSE <<Head(bytes)>> \o FirstLine(Tail(bytes))

\* StripEol that keeps the line as getline() returned it.
StripEol_Keep(line) == line

\* The inner while of editorOpen: drop trailing '\n' and '\r'.
RECURSIVE StripEol(_)
StripEol(line) ==
    IF Len(line) > 0 /\ (line[Len(line)] = LF \/ line[Len(line)] = CR)
    THEN StripEol(SubSeq(line, 1, Len(line) - 1))
    ELSE line

\* The outer while of editorOpen: one editorInsertRow per getline().
RECURSIVE ReadLines(_, _)
ReadLines(e, bytes) ==
    IF bytes = <<>> THEN e
    ELSE LET line == FirstLine(bytes)
         IN  ReadLines(editorInsertRow(e, e.numrows, StripEol(line)),
                       SubSeq(bytes, Len(line) + 1, Len(bytes)))

editorOpen(e, filename, bytes) ==
    [ReadLines([e EXCEPT !.filename = filename], bytes) EXCEPT !.dirty = 0]

\* RowsToStringLoop with '\n' between the lines only, none after the last.
RECURSIVE RowsToStringLoop_Join(_, _)
RowsToStringLoop_Join(rows, j) ==
    IF j > Len(rows) THEN <<>>
    ELSE SubSeq(rows[j].chars, 1, rows[j].size)
         \o (IF j < Len(rows) THEN <<LF>> ELSE <<>>)
         \o RowsToStringLoop_Join(rows, j + 1)

RECURSIVE RowsToStringLoop(_, _)
RowsToStringLoop(rows, j) ==
    IF j > Len(rows) THEN <<>>
    ELSE SubSeq(rows[j].chars, 1, rows[j].size) \o <<LF>> \o RowsToStringLoop(rows, j + 1)

editorRowsToString(e) == RowsToStringLoop(e.row, 1)

\* editorSave from "int len" on, E.filename being set.  The outcome is which
\* of open(), ftruncate() and write() fails, or "ok".  E.save records the
\* outcome and E.written the buffer handed to write(), when it is called.
SaveOutcomes == {"ok", "open", "ftruncate", "write"}

\* WriteFile that clears E.dirty as soon as write() has been called.
WriteFile_ClearsOnAttempt(e, outcome) ==
    LET buffer == editorRowsToString(e)
        len == Len(buffer)
        e1 == [e EXCEPT !.save = outcome]
    IN  CASE outcome = "ok" ->
                 [editorSetStatusMessage(e1, "%d bytes written to disk", len)
                     EXCEPT !.dirty = 0, !.written = buffer]
          [] outcome = "open" ->
                 editorSetStatusMessage(e1, "Can't save! I/O error: %s", 0)
          [] outcome = "write" -> [e1 EXCEPT !.dirty = 0, !.written = buffer]
          [] OTHER -> e1

WriteFile(e, outcome) ==
    LET buffer == editorRowsToString(e)
        len == Len(buffer)
        e1 == [e EXCEPT !.save = outcome]
    IN  CASE outcome = "ok" ->
                 [editorSetStatusMessage(e1, "%d bytes written to disk", len)
                     EXCEPT !.dirty = 0, !.written = buffer]
          [] outcome = "open" ->
                 editorSetStatusMessage(e1, "Can't save! I/O error: %s", 0)
          [] outcome = "write" -> [e1 EXCEPT !.written = buffer]
          [] OTHER -> e1

----------------------------------------------------------------------------
(* Terminal mode and process exit                                          *)
(*                                                                         *)
(* What the model keeps of the terminal and of the exit handlers: raw      *)
(* (tcsetattr has put the terminal in raw mode), atexit (disableRawMode is *)
(* registered with atexit) and restored (disableRawMode has called         *)
(* tcsetattr with E.orig_termios).                                         *)

Cooked == [raw |-> FALSE, atexit |-> FALSE, restored |-> FALSE]

disableRawMode(t) == [t EXCEPT !.restored = TRUE]

\* exit(): the functions registered with atexit run.
exit(t) == IF t.atexit THEN disableRawMode(t) ELSE t

die(t) == exit(t)

\* enableRawMode that does not register disableRawMode.
enableRawMode_NoAtexit(t, outcome) ==
    IF outcome = "tcgetattr" THEN die(t)
    ELSE IF outcome = "tcsetattr" THEN die(t)
    ELSE [t EXCEPT !.raw = TRUE]

\* enableRawMode: the outcome is the call that fails, or "ok".
enableRawMode(t, outcome) ==
    IF outcome = "tcgetattr" THEN die(t)
    ELSE LET t1 == [t EXCEPT !.atexit = TRUE]
         IN  IF outcome = "tcsetattr" THEN die(t1)
             ELSE [t1 EXCEPT !.raw = TRUE]

\* The terminal when main goes on after enableRawMode.
RawMode == enableRawMode(Cooked, "ok")

----------------------------------------------------------------------------
(* Initial state: main() up to the loop                                    *)

RECURSIVE SumSizes(_, _)
SumSizes(rows, j) == IF j > Len(rows) THEN 0 ELSE rows[j].size + SumSizes(rows, j + 1)

SeqsUpTo(S, n) == UNION {[1..k -> S] : k \in 0..n}

FileBytes == {Letter, TAB, LF}
Files == SeqsUpTo(FileBytes, MaxFileLen)
FileName == <<102>>

\* Besides the fields of struct editorConfig, E records what the model
\* observes of a handler: oob and fault (an access outside E.row, and its
\* killing the process), save (the outcome of editorSave) and written (the
\* buffer editorSave handed to write()); term, the terminal as
\* enableRawMode, which main calls first, has left it; time, the clock;
\* and bar, the message bar of the frame just drawn.
initEditor(rows, cols) ==
    [cx |-> 0, cy |-> 0, rx |-> 0, rowoff |-> 0, coloff |-> 0,
     screenrows |-> rows, screencols |-> cols,
     numrows |-> 0, row |-> <<>>, dirty |-> 0,
     filename |-> NoName, statusmsg |-> <<"", 0>>, statusmsg_time |-> 0,
     oob |-> FALSE, fault |-> FALSE, save |-> "none", written |-> <<>>,
     term |-> RawMode, time |-> StartTime, bar |-> NoBar]

Help(e) == editorSetStatusMessage(e, "HELP: Ctrl-Q to quit | Ctrl S to save", 0)

\* The documents of the model: within MaxRows and MaxBytes.
Fits(e) == e.numrows <= MaxRows /\ SumSizes(e.row, 1) <= MaxBytes

Loaded(size, bytes) == Help(editorOpen(initEditor(size[1], size[2]), FileName, bytes))

InitE ==
    {Help(initEditor(size[1], size[2])) : size \in ScreenSizes}
    \cup {e \in {Loaded(size, bytes) : size \in ScreenSizes, bytes \in Files} : Fits(e)}

Init ==
    /\ E \in InitE
    /\ quit_times = KILO_QUIT_TIMES
    /\ pc = "refresh"
    /\ c = NoKey
    /\ stdin = <<>>
    /\ buf = <<>>

----------------------------------------------------------------------------
(* The main loop: editorRefreshScreen, then editorProcessKeypress          *)

\* E.save and E.written tell what the key just handled did with the file:
\* they are cleared once its frame is drawn.
RefreshScreen ==
    /\ pc = "refresh"
    /\ E' = [editorRefreshScreen(E) EXCEPT !.save = "none", !.written = <<>>]
    /\ pc' = "key"
    /\ c' = NoKey
    /\ UNCHANGED <<quit_times, stdin, buf>>

\* The bytes editorReadKey finds: what was pending and what the terminal
\* delivers while the first read() blocks.
Input(chunk) == stdin \o chunk
Key(chunk) == editorReadKey(Input(chunk)).key

Reading(chunk) ==
    /\ pc = "key"
    /\ Input(chunk) # <<>>
    /\ ~editorReadKey(Input(chunk)).died

\* E at the start of a handler.
Start == [E EXCEPT !.oob = FALSE, !.save = "none", !.written = <<>>, !.bar = NoBar]

\* Handled without the reset of quit_times.
Handled_NoReset(chunk, e) ==
    /\ E' = e
    /\ pc' = IF e.fault THEN "crashed" ELSE "refresh"
    /\ quit_times' = quit_times
    /\ c' = Key(chunk)
    /\ stdin' = editorReadKey(Input(chunk)).rest
    /\ UNCHANGED buf

\* Handled going back to the read of the next key without a frame.
Handled_NoFrame(chunk, e) ==
    /\ E' = e
    /\ pc' = IF e.fault THEN "crashed" ELSE "key"
    /\ quit_times' = KILO_QUIT_TIMES
    /\ c' = Key(chunk)
    /\ stdin' = editorReadKey(Input(chunk)).rest
    /\ UNCHANGED buf

\* The end of editorProcessKeypress after "break": E becomes e, quit_times
\* is reset; a fault ends the process.
Handled(chunk, e) ==
    /\ E' = e
    /\ pc' = IF e.fault THEN "crashed" ELSE "refresh"
    /\ quit_times' = KILO_QUIT_TIMES
    /\ c' = Key(chunk)
    /\ stdin' = editorReadKey(Input(chunk)).rest
    /\ UNCHANGED buf

ReadDie(chunk) ==
    /\ pc \in {"key", "prompt_key"}
    /\ Input(chunk) # <<>>
    /\ editorReadKey(Input(chunk)).died
    /\ pc' = "died"
    /\ E' = [E EXCEPT !.term = die(@), !.bar = NoBar]
    /\ stdin' = editorReadKey(Input(chunk)).rest
    /\ UNCHANGED <<quit_times, c, buf>>

KeyEnter(chunk, g) ==
    /\ Reading(chunk)
    /\ Key(chunk) = CR
    /\ Handled(chunk, editorInsertNewline(Start, g))

\* KeyQuit asking for the repeats whether or not the document is dirty.
KeyQuit_AlwaysWarn(chunk) ==
    /\ Reading(chunk)
    /\ Key(chunk) = CTRL_Q
    /\ IF quit_times > 0
       THEN /\ E' = editorSetStatusMessage(Start,
                       "WARNING! File has unsaved changes. Press Ctrl Q %d more times to quit.",
                       quit_times)
            /\ quit_times' = quit_times - 1
            /\ pc' = "refresh"
       ELSE /\ E' = [Start EXCEPT !.term = exit(@)]
            /\ quit_times' = quit_times
            /\ pc' = "exited"
    /\ c' = Key(chunk)
    /\ stdin' = editorReadKey(Input(chunk)).rest
    /\ UNCHANGED buf

KeyQuit(chunk) ==
    /\ Reading(chunk)
    /\ Key(chunk) = CTRL_Q
    /\ IF E.dirty # 0 /\ quit_times > 0
       THEN /\ E' = editorSetStatusMessage(Start,
                       "WARNING! File has unsaved changes. Press Ctrl Q %d more times to quit.",
                       quit_times)
            /\ quit_times' = quit_times - 1
            /\ pc' = "refresh"
       ELSE /\ E' = [Start EXCEPT !.term = exit(@)]
            /\ quit_times' = quit_times
            /\ pc' = "exited"
    /\ c' = Key(chunk)
    /\ stdin' = editorReadKey(Input(chunk)).rest
    /\ UNCHANGED buf

KeySave(chunk, outcome) ==
    /\ Reading(chunk)
    /\ Key(chunk) = CTRL_S
    /\ IF E.filename = NoName
       THEN /\ E' = Start
            /\ pc' = "prompt_refresh"
            /\ quit_times' = quit_times
            /\ c' = Key(chunk)
            /\ stdin' = editorReadKey(Input(chunk)).rest
            /\ buf' = <<>>
       ELSE Handled(chunk, WriteFile(Start, outcome))

KeyHome(chunk) ==
    /\ Reading(chunk)
    /\ Key(chunk) = HOME_KEY
    /\ Handled(chunk, [Start EXCEPT !.cx = 0])

KeyEnd(chunk) ==
    /\ Reading(chunk)
    /\ Key(chunk) = END_KEY
    /\ Handled(chunk, IF E.cy < E.numrows
                      THEN [Start EXCEPT !.cx = E.row[E.cy + 1].size]
                      ELSE Start)

KeyDelete(chunk, g) ==
    /\ Reading(chunk)
    /\ Key(chunk) \in {BACKSPACE, CTRL_H, DEL_KEY}
    /\ Handled(chunk,
               editorDeleteChar(IF Key(chunk) = DEL_KEY
                                THEN editorMoveCursor(Start, g, ARROW_RIGHT)
                                ELSE Start, g))

KeyPage(chunk, g) ==
    /\ Reading(chunk)
    /\ Key(chunk) \in {PAGE_UP, PAGE_DOWN}
    /\ LET bottom == E.rowoff + E.screenrows - 1
           e1 == IF Key(chunk) = PAGE_UP
                 THEN [Start EXCEPT !.cy = E.rowoff]
                 ELSE [Start EXCEPT !.cy = IF bottom > E.numrows
                                           THEN E.numrows ELSE bottom]
       IN  Handled(chunk, MoveTimes(e1, g,
                                    IF Key(chunk) = PAGE_UP THEN ARROW_UP ELSE ARROW_DOWN,
                                    E.screenrows))

KeyArrow(chunk, g) ==
    /\ Reading(chunk)
    /\ Key(chunk) \in {ARROW_UP, ARROW_DOWN, ARROW_LEFT, ARROW_RIGHT}
    /\ Handled(chunk, editorMoveCursor(Start, g, Key(chunk)))

\* KeyNoop without its two case labels: the key reaches default.
KeyNoop_Default(chunk) ==
    /\ Reading(chunk)
    /\ Key(chunk) \in {CTRL_L, ESC}
    /\ \E g \in Indeterminate : Handled(chunk, editorInsertChar(Start, g, Key(chunk)))

KeyNoop(chunk) ==
    /\ Reading(chunk)
    /\ Key(chunk) \in {CTRL_L, ESC}
    /\ Handled(chunk, Start)

\* The keys with a case of their own in the switch of editorProcessKeypress.
Commands ==
    {CR, CTRL_Q, CTRL_S, HOME_KEY, END_KEY, BACKSPACE, CTRL_H, DEL_KEY,
     PAGE_UP, PAGE_DOWN, ARROW_UP, ARROW_DOWN, ARROW_LEFT, ARROW_RIGHT,
     CTRL_L, ESC}

\* default: editorInsertChar(c)
KeyInsert(chunk, g) ==
    /\ Reading(chunk)
    /\ Key(chunk) \notin Commands
    /\ Handled(chunk, editorInsertChar(Start, g, Key(chunk)))

----------------------------------------------------------------------------
(* The loop of editorPrompt, entered from editorSave                       *)

PromptRefresh ==
    /\ pc = "prompt_refresh"
    /\ E' = editorRefreshScreen(editorSetStatusMessage(E, "Save as: %s (ESC to cancel)", buf))
    /\ pc' = "prompt_key"
    /\ c' = NoKey
    /\ UNCHANGED <<quit_times, stdin, buf>>

\* iscntrl() on a byte below 128.
iscntrl(k) == k < 32 \/ k = 127

\* PromptKey whose ESC branch returns the buffer when it holds a name, as
\* the branch of '\r' does.
PromptKey_EscAccepts(chunk, outcome) ==
    /\ pc = "prompt_key"
    /\ Input(chunk) # <<>>
    /\ ~editorReadKey(Input(chunk)).died
    /\ LET k == Key(chunk)
           buf1 == IF k \in {DEL_KEY, CTRL_H, BACKSPACE} /\ Len(buf) # 0
                   THEN SubSeq(buf, 1, Len(buf) - 1)
                   ELSE buf
           e0 == [E EXCEPT !.bar = NoBar]
           cleared == editorSetStatusMessage(e0, "", 0)
       IN  CASE k = ESC /\ Len(buf1) = 0 ->
                    /\ E' = editorSetStatusMessage(cleared, "Save aborted", 0)
                    /\ buf' = <<>>
                    /\ pc' = "refresh"
                    /\ quit_times' = KILO_QUIT_TIMES
             [] k \in {CR, ESC} /\ Len(buf1) # 0 ->
                    /\ E' = WriteFile([cleared EXCEPT !.filename = buf1], outcome)
                    /\ buf' = <<>>
                    /\ pc' = "refresh"
                    /\ quit_times' = KILO_QUIT_TIMES
             [] k = CR /\ Len(buf1) = 0 ->
                    /\ E' = e0
                    /\ buf' = buf1
                    /\ pc' = "prompt_refresh"
                    /\ quit_times' = quit_times
             [] OTHER ->
                    /\ E' = e0
                    /\ buf' = IF k >= 0 /\ k < 128 /\ ~iscntrl(k)
                              THEN buf1 \o <<ByteOf(k)>> ELSE buf1
                    /\ pc' = "prompt_refresh"
                    /\ quit_times' = quit_times
    /\ c' = Key(chunk)
    /\ stdin' = editorReadKey(Input(chunk)).rest

PromptKey(chunk, outcome) ==
    /\ pc = "prompt_key"
    /\ Input(chunk) # <<>>
    /\ ~editorReadKey(Input(chunk)).died
    /\ LET k == Key(chunk)
           buf1 == IF k \in {DEL_KEY, CTRL_H, BACKSPACE} /\ Len(buf) # 0
                   THEN SubSeq(buf, 1, Len(buf) - 1)
                   ELSE buf
           e0 == [E EXCEPT !.bar = NoBar]
           cleared == editorSetStatusMessage(e0, "", 0)
       IN  CASE k = ESC ->
                    /\ E' = editorSetStatusMessage(cleared, "Save aborted", 0)
                    /\ buf' = <<>>
                    /\ pc' = "refresh"
                    /\ quit_times' = KILO_QUIT_TIMES
             [] k = CR /\ Len(buf1) # 0 ->
                    /\ E' = WriteFile([cleared EXCEPT !.filename = buf1], outcome)
                    /\ buf' = <<>>
                    /\ pc' = "refresh"
                    /\ quit_times' = KILO_QUIT_TIMES
             [] k = CR /\ Len(buf1) = 0 ->
                    /\ E' = e0
                    /\ buf' = buf1
                    /\ pc' = "prompt_refresh"
                    /\ quit_times' = quit_times
             [] OTHER ->
                    /\ E' = e0
                    /\ buf' = IF k >= 0 /\ k < 128 /\ ~iscntrl(k)
                              THEN buf1 \o <<ByteOf(k)>> ELSE buf1
                    /\ pc' = "prompt_refresh"
                    /\ quit_times' = quit_times
    /\ c' = Key(chunk)
    /\ stdin' = editorReadKey(Input(chunk)).rest

----------------------------------------------------------------------------
(* Specifications                                                          *)

\* The bounds, on the state a step leads to.
Bounded ==
    /\ Fits(E')
    /\ E'.cy <= MaxCy
    /\ E'.cx <= MaxBytes
    /\ Len(buf') <= MaxName

\* What the terminal sends for one key press.
KeyChunks ==
    { <<CR>>, <<CTRL_Q>>, <<CTRL_S>>, <<BACKSPACE>>, <<ESC>>, <<TAB>>,
      <<ESC, LBRACKET, LETTER_A>>, <<ESC, LBRACKET, LETTER_B>>,
      <<ESC, LBRACKET, LETTER_C>>, <<ESC, LBRACKET, LETTER_D>>,
      <<ESC, LBRACKET, LETTER_H>>, <<ESC, LBRACKET, LETTER_F>>,
      <<ESC, LBRACKET, 51, TILDE>>, <<ESC, LBRACKET, 53, TILDE>>,
      <<ESC, LBRACKET, 54, TILDE>> }

\* One key press: the terminal delivers a chunk of Chunks and the handler
\* of the key it decodes to runs.
Enter(Chunks) == \E chunk \in Chunks, g \in Indeterminate : KeyEnter(chunk, g) /\ Bounded
Delete(Chunks) == \E chunk \in Chunks, g \in Indeterminate : KeyDelete(chunk, g) /\ Bounded
Page(Chunks) == \E chunk \in Chunks, g \in Indeterminate : KeyPage(chunk, g) /\ Bounded
Arrow(Chunks) == \E chunk \in Chunks, g \in Indeterminate : KeyArrow(chunk, g) /\ Bounded
Insert(Chunks) == \E chunk \in Chunks, g \in Indeterminate : KeyInsert(chunk, g) /\ Bounded
Quit(Chunks) == \E chunk \in Chunks : KeyQuit(chunk) /\ Bounded
Home(Chunks) == \E chunk \in Chunks : KeyHome(chunk) /\ Bounded
End(Chunks) == \E chunk \in Chunks : KeyEnd(chunk) /\ Bounded
Noop(Chunks) == \E chunk \in Chunks : KeyNoop(chunk) /\ Bounded
Save(Chunks) == \E chunk \in Chunks, outcome \in SaveOutcomes : KeySave(chunk, outcome) /\ Bounded
Prompt(Chunks) == \E chunk \in Chunks, outcome \in SaveOutcomes : PromptKey(chunk, outcome) /\ Bounded

\* The editor under every key.
Next ==
    \/ RefreshScreen
    \/ PromptRefresh
    \/ Enter(KeyChunks)
    \/ Delete(KeyChunks)
    \/ Page(KeyChunks)
    \/ Arrow(KeyChunks)
    \/ Insert(KeyChunks)
    \/ Quit(KeyChunks)
    \/ Home(KeyChunks)
    \/ End(KeyChunks)
    \/ Noop(KeyChunks)
    \/ Save(KeyChunks)
    \/ Prompt(KeyChunks)

\* Every key is tried on the larger text area.
InitFull == Init /\ E.screenrows = 2

Spec == InitFull /\ [][Next]_vars

\* The edit engine alone: sequences of insertChar, insertNewline and
\* deleteCharBackward (Backspace, Ctrl-H, and Delete, which steps right
\* first), from an empty or a loaded document.  The bytes typed include the
\* control byte Ctrl-J.
EditChunks ==
    { <<CR>>, <<BACKSPACE>>, <<CTRL_H>>, <<ESC, LBRACKET, 51, TILDE>>,
      <<Letter>>, <<TAB>>, <<LF>> }

NextEdit ==
    \/ RefreshScreen
    \/ Enter(EditChunks)
    \/ Delete(EditChunks)
    \/ Insert(EditChunks)

SpecEdit == Init /\ [][NextEdit]_vars

\* Navigation alone, over the loaded documents.
NavChunks ==
    { <<ESC, LBRACKET, LETTER_A>>, <<ESC, LBRACKET, LETTER_B>>,
      <<ESC, LBRACKET, LETTER_C>>, <<ESC, LBRACKET, LETTER_D>>,
      <<ESC, LBRACKET, LETTER_H>>, <<ESC, LBRACKET, LETTER_F>>,
      <<ESC, LBRACKET, 53, TILDE>>, <<ESC, LBRACKET, 54, TILDE>> }

NextNav ==
    \/ RefreshScreen
    \/ Page(NavChunks)
    \/ Arrow(NavChunks)
    \/ Home(NavChunks)
    \/ End(NavChunks)

SpecNav == Init /\ [][NextNav]_vars

\* One line typed from left to right, up to MaxLineLen bytes, tabs included.
MaxLineLen == 9
LineChunks == { <<Letter>>, <<TAB>> }

InitLine == Init /\ E.numrows = 0

InsertLine ==
    \E chunk \in LineChunks, g \in Indeterminate :
        KeyInsert(chunk, g) /\ E'.row[1].size <= MaxLineLen

NextLine ==
    \/ RefreshScreen
    \/ InsertLine

SpecLine == InitLine /\ [][NextLine]_vars

\* The key decoder over the input streams of Streams: the bytes are pending
\* when the loop starts and every key is read from them.
Firsts == {ESC, Letter, LBRACKET, 233, ReadErr}
Seconds == {LBRACKET, LETTER_O, Letter, ESC, ReadErr}
Thirds ==
    {49, 50, 51, 52, 53, 54, 55, 56, TILDE, LETTER_A, LETTER_B, LETTER_C,
     LETTER_D, LETTER_F, LETTER_H, Letter, ESC, ReadErr}
Fourths == {TILDE, Letter, ESC, ReadErr}

Streams ==
    {<<a>> : a \in Firsts}
    \cup {<<a, b>> : a \in Firsts, b \in Seconds}
    \cup {<<a, b, d>> : a \in Firsts, b \in Seconds, d \in Thirds}
    \cup {<<a, b, d, f>> : a \in Firsts, b \in Seconds, d \in Thirds, f \in Fourths}

Pending == {<<>>}

InitKeys ==
    /\ E = Help(initEditor(2, 3))
    /\ quit_times = KILO_QUIT_TIMES
    /\ pc = "refresh"
    /\ c = NoKey
    /\ stdin \in Streams
    /\ buf = <<>>

Die(Chunks) == \E chunk \in Chunks : ReadDie(chunk)

NextKeys ==
    \/ RefreshScreen
    \/ Die(Pending)
    \/ Delete(Pending)
    \/ Page(Pending)
    \/ Arrow(Pending)
    \/ Insert(Pending)
    \/ Home(Pending)
    \/ End(Pending)
    \/ Noop(Pending)

SpecKeys == InitKeys /\ [][NextKeys]_vars

\* The session: edits, saves, the save prompt, quits and the keys that
\* cannot take the cursor below the end-of-file row (no Down, no PageDown).
SessionChunks ==
    { <<CR>>, <<CTRL_Q>>, <<CTRL_S>>, <<BACKSPACE>>, <<ESC>>, <<CTRL_L>>,
      <<Letter>>, <<TAB>>,
      <<ESC, LBRACKET, LETTER_A>>, <<ESC, LBRACKET, LETTER_C>>,
      <<ESC, LBRACKET, LETTER_D>>,
      <<ESC, LBRACKET, LETTER_H>>, <<ESC, LBRACKET, LETTER_F>>,
      <<ESC, LBRACKET, 51, TILDE>>, <<ESC, LBRACKET, 53, TILDE>> }

NextSession ==
    \/ RefreshScreen
    \/ PromptRefresh
    \/ Enter(SessionChunks)
    \/ Delete(SessionChunks)
    \/ Page(SessionChunks)
    \/ Arrow(SessionChunks)
    \/ Insert(SessionChunks)
    \/ Quit(SessionChunks)
    \/ Home(SessionChunks)
    \/ End(SessionChunks)
    \/ Noop(SessionChunks)
    \/ Save(SessionChunks)
    \/ Prompt(SessionChunks)

SpecSession == InitFull /\ [][NextSession]_vars

\* A file is loaded and saved, the cursor moving left and right in between:
\* no key edits the document.
FileChunks ==
    { <<CTRL_S>>, <<ESC, LBRACKET, LETTER_C>>, <<ESC, LBRACKET, LETTER_D>> }

InitFile == Init /\ E.filename # NoName

NextFile ==
    \/ RefreshScreen
    \/ Save(FileChunks)
    \/ Arrow(FileChunks)

SpecFile == InitFile /\ [][NextFile]_vars

\* Typing with the cursor moved in between: the edit keys and the keys that
\* move the cursor over the lines of the document (Left, Right, Up, Home,
\* End), so that an edit is made at every position of every line.
TypingChunks ==
    { <<CR>>, <<BACKSPACE>>, <<ESC, LBRACKET, 51, TILDE>>, <<Letter>>, <<TAB>>,
      <<ESC, LBRACKET, LETTER_A>>, <<ESC, LBRACKET, LETTER_C>>,
      <<ESC, LBRACKET, LETTER_D>>,
      <<ESC, LBRACKET, LETTER_H>>, <<ESC, LBRACKET, LETTER_F>> }

NextTyping ==
    \/ RefreshScreen
    \/ Enter(TypingChunks)
    \/ Delete(TypingChunks)
    \/ Insert(TypingChunks)
    \/ Arrow(TypingChunks)
    \/ Home(TypingChunks)
    \/ End(TypingChunks)

SpecTyping == Init /\ [][NextTyping]_vars

\* Moving over an edited document: every key that moves the cursor or does
\* nothing (the four arrows, Home, End, PageUp, PageDown, Escape, Ctrl-L),
\* with a byte typed, Enter and Backspace in between.
MoveChunks ==
    NavChunks \cup { <<ESC>>, <<CTRL_L>>, <<Letter>>, <<CR>>, <<BACKSPACE>> }

NextMove ==
    \/ RefreshScreen
    \/ Page(MoveChunks)
    \/ Arrow(MoveChunks)
    \/ Home(MoveChunks)
    \/ End(MoveChunks)
    \/ Noop(MoveChunks)
    \/ Insert(MoveChunks)
    \/ Enter(MoveChunks)
    \/ Delete(MoveChunks)

SpecMove == Init /\ [][NextMove]_vars

\* The save-as prompt: a document typed from nothing, which has no
\* filename, Ctrl-S, and at the prompt a name typed and erased, Enter,
\* Escape and a control byte, which the prompt ignores (the tab).
PromptChunks ==
    { <<Letter>>, <<TAB>>, <<CR>>, <<BACKSPACE>>, <<CTRL_S>>, <<ESC>> }

InitPrompt == Init /\ E.filename = NoName

NextPrompt ==
    \/ RefreshScreen
    \/ PromptRefresh
    \/ Insert(PromptChunks)
    \/ Enter(PromptChunks)
    \/ Delete(PromptChunks)
    \/ Noop(PromptChunks)
    \/ Save(PromptChunks)
    \/ Prompt(PromptChunks)

SpecPrompt == InitPrompt /\ [][NextPrompt]_vars

\* The ways the process ends: main fails before its loop (enableRawMode,
\* then getWindowSize in initEditor, then fopen in editorOpen), a read()
\* fails in the loop, or Ctrl-Q is obeyed.  When main fails in
\* enableRawMode or initEditor E is still as zero-initialised.
MainFails ==
    {[initEditor(0, 0) EXCEPT !.term = enableRawMode(Cooked, outcome)] :
        outcome \in {"tcgetattr", "tcsetattr"}}
    \cup {[initEditor(0, 0) EXCEPT !.term = die(RawMode)]}
    \cup {[initEditor(size[1], size[2]) EXCEPT !.filename = FileName, !.term = die(RawMode)] :
             size \in ScreenSizes}

InitMain ==
    \/ Init
    \/ /\ E \in MainFails
       /\ quit_times = KILO_QUIT_TIMES
       /\ pc = "died"
       /\ c = NoKey
       /\ stdin = <<>>
       /\ buf = <<>>

ExitChunks == { <<Letter>>, <<CTRL_Q>>, <<CTRL_S>>, <<ReadErr>> }

NextExit ==
    \/ RefreshScreen
    \/ PromptRefresh
    \/ Insert(ExitChunks)
    \/ Quit(ExitChunks)
    \/ Save(ExitChunks)
    \/ Prompt(ExitChunks)
    \/ Die(ExitChunks)

SpecExit == InitMain /\ [][NextExit]_vars

\* The status message over time: the clock advances while read() waits for
\* a key, and keys that set messages (Ctrl-Q refused, the save-as prompt,
\* its cancelling, saves) and keys that set none (letters) are pressed.
Tick ==
    /\ pc \in {"key", "prompt_key"}
    /\ E.time < StartTime + MaxTime
    /\ E' = [E EXCEPT !.time = @ + 1]
    /\ UNCHANGED <<quit_times, pc, c, stdin, buf>>

MessageChunks == { <<Letter>>, <<CTRL_Q>>, <<CTRL_S>>, <<ESC>>, <<CR>> }

InitMessage == Init /\ E.numrows = 0 /\ E.screenrows = 2

NextMessage ==
    \/ RefreshScreen
    \/ PromptRefresh
    \/ Tick
    \/ Insert(MessageChunks)
    \/ Enter(MessageChunks)
    \/ Quit(MessageChunks)
    \/ Noop(MessageChunks)
    \/ Save(MessageChunks)
    \/ Prompt(MessageChunks)

SpecMessage == InitMessage /\ [][NextMessage]_vars

\* The operations of the line buffer called on their own, with every
\* argument, in range and out of range, on the documents main can load and
\* on what earlier calls made of them.  pc names the function called and c
\* holds its argument at; the erow handed to editorRowInsertChar and
\* editorRowDelChar is &E.row[E.cy], as in their callers, which is outside
\* the document when the document is empty.
LineCalls == {"editorInsertRow", "editorDelRow", "editorRowInsertChar", "editorRowDelChar"}

Called(fn, at, e) ==
    /\ pc \in {"refresh"} \cup LineCalls
    /\ E' = e
    /\ pc' = IF e.fault THEN "crashed" ELSE fn
    /\ c' = at
    /\ UNCHANGED <<quit_times, stdin, buf>>
    /\ Bounded

CallInsertRow ==
    \E at \in (0 - 1)..(MaxRows + 1), s \in {<<>>, Text} :
        Called("editorInsertRow", at, editorInsertRow(Start, at, s))

CallDelRow ==
    \E at \in (0 - 1)..(MaxRows + 1) :
        Called("editorDelRow", at, editorDelRow(Start, at))

CallRowInsertChar ==
    \E at \in (0 - 1)..(MaxBytes + 1), g \in Indeterminate :
        Called("editorRowInsertChar", at, editorRowInsertChar(Start, E.cy, g, at, Letter))

CallRowDelChar ==
    \E at \in (0 - 1)..(MaxBytes + 1), g \in Indeterminate :
        Called("editorRowDelChar", at, editorRowDelChar(Start, E.cy, g, at))

NextCalls ==
    \/ CallInsertRow
    \/ CallDelRow
    \/ CallRowInsertChar
    \/ CallRowDelChar

SpecCalls == Init /\ [][NextCalls]_vars

----------------------------------------------------------------------------
(* Properties                                                              *)

\* Tab expansion of the first k bytes, stated column by column: a tab
\* becomes as many spaces as reach the next multiple of the tab stop.
RECURSIVE TabExpand(_, _)
TabExpand(chars, k) ==
    IF k = 0 THEN <<>>
    ELSE LET p == TabExpand(chars, k - 1)
         IN  IF chars[k] = TAB
             THEN p \o Spaces(KILO_TAB_STOP - (Len(p) % KILO_TAB_STOP))
             ELSE p \o <<chars[k]>>

\* C1: after every insertChar, insertNewline and deleteCharBackward, in any
\* sequence from an empty or a loaded document, the cached render of every
\* line is the tab expansion of its raw bytes and rsize is its length.
C1_RenderInSync ==
    /\ E.numrows = Len(E.row)
    /\ \A i \in 1..Len(E.row) :
          /\ E.row[i].size = Len(E.row[i].chars)
          /\ E.row[i].render = TabExpand(E.row[i].chars, Len(E.row[i].chars))
          /\ E.row[i].rsize = Len(E.row[i].render)

\* A Backspace has just joined two lines into the line "a<TAB>".
C1_Witness ==
    /\ pc = "refresh"
    /\ c = BACKSPACE
    /\ E.dirty = 1
    /\ E.numrows = 1
    /\ E.row[1].chars = <<Letter, TAB>>
    /\ E.row[1].rsize = KILO_TAB_STOP

\* C2: the cursor row is between 0 and numrows in every reachable state.
C2_CursorRowInRange == 0 <= E.cy /\ E.cy <= E.numrows

\* The length the claim measures cx against: that of the line at cy, 0 when
\* cy holds no line.
LineLength(e) == IF InDoc(e, e.cy) THEN e.row[e.cy + 1].size ELSE 0

\* C3: the cursor column is between 0 and the length of the line at cy.
C3_CursorColInRange ==
    pc \in {"refresh", "key"} => 0 <= E.cx /\ E.cx <= LineLength(E)

\* C4: no line of the document contains the newline byte.
C4_NoNewlineInLines ==
    \A i \in 1..Len(E.row) : \A j \in 1..Len(E.row[i].chars) : E.row[i].chars[j] # LF

\* The translator's column for the cursor, 0 on a row that holds no line.
VisualCol(e) == IF e.cy < e.numrows THEN editorRowCxtoRx(e.row[e.cy + 1], e.cx) ELSE 0

\* The cursor at visual column rx is inside the viewport of e.
Inside(e, rx) ==
    /\ e.rowoff <= e.cy /\ e.cy < e.rowoff + e.screenrows
    /\ e.coloff <= rx /\ rx < e.coloff + e.screencols

\* C5: after every scroll recompute the cursor row and the visual column of
\* the cursor are inside the viewport, so the cursor position written in the
\* frame is inside the text area.
C5_CursorInViewport ==
    pc \in {"key", "prompt_key"} =>
        /\ E.rx = VisualCol(E)
        /\ Inside(E, E.rx)
        /\ FrameCursor(E)[1] \in 1..E.screenrows
        /\ FrameCursor(E)[2] \in 1..E.screencols

\* A frame composed with the viewport scrolled on both axes.
C5_Witness == pc = "key" /\ E.rowoff > 0 /\ E.coloff > 0

\* C6: with the cursor inside the viewport editorScroll leaves rowoff and
\* coloff as they are, and a second editorScroll changes nothing.
C6_ScrollStable ==
    LET s == editorScroll(E)
    IN  /\ Inside(E, VisualCol(E)) => s.rowoff = E.rowoff /\ s.coloff = E.coloff
        /\ editorScroll(s) = s

\* The Right arrow has moved the cursor and left it inside a viewport that
\* is scrolled on both axes, to the right of its first column.
C6_Witness ==
    /\ pc = "refresh"
    /\ c = ARROW_RIGHT
    /\ Inside(E, VisualCol(E))
    /\ E.rowoff > 0
    /\ E.coloff > 0 /\ VisualCol(E) > E.coloff

Abs(n) == IF n < 0 THEN 0 - n ELSE n

\* C7: with the cursor outside the viewport the new offset is the one nearest
\* the old that shows the cursor: cy above gives rowoff' = cy, cy at or below
\* the bottom gives rowoff' = cy - screenrows + 1 (a shift of exactly one
\* for a cursor one row below the last visible row), and so for coloff.
C7_MinimalScroll ==
    LET s == editorScroll(E)
        rx == VisualCol(E)
    IN  /\ E.cy < E.rowoff => s.rowoff = E.cy
        /\ E.cy >= E.rowoff + E.screenrows => s.rowoff = E.cy - E.screenrows + 1
        /\ E.cy = E.rowoff + E.screenrows => s.rowoff = E.rowoff + 1
        /\ rx < E.coloff => s.coloff = rx
        /\ rx >= E.coloff + E.screencols => s.coloff = rx - E.screencols + 1
        /\ \A o \in 0..(E.cy + E.rowoff) :
              (o <= E.cy /\ E.cy < o + E.screenrows)
                  => Abs(s.rowoff - E.rowoff) <= Abs(o - E.rowoff)
        /\ \A o \in 0..(rx + E.coloff) :
              (o <= rx /\ rx < o + E.screencols)
                  => Abs(s.coloff - E.coloff) <= Abs(o - E.coloff)

\* The cursor has moved to the row just below the last visible row and to
\* the left of the first visible column.
C7_Witness ==
    /\ pc = "refresh"
    /\ E.cy = E.rowoff + E.screenrows
    /\ VisualCol(E) < E.coloff

\* C8: for every line and every cx in 0..length, editorRowCxtoRx is the
\* length of the render of the first cx bytes: strictly increasing in cx,
\* rsize at cx = length; a line that is one tab renders as 8 spaces and its
\* column 1 is visual column 8.
C8_CxtoRxIsRenderLength ==
    \A i \in 1..Len(E.row) :
        LET r == E.row[i]
        IN  /\ \A cx \in 0..r.size :
                  editorRowCxtoRx(r, cx) = Len(NewRow(SubSeq(r.chars, 1, cx)).render)
            /\ \A cx \in 1..r.size : editorRowCxtoRx(r, cx - 1) < editorRowCxtoRx(r, cx)
            /\ editorRowCxtoRx(r, r.size) = r.rsize
            /\ r.chars = <<TAB>> =>
                  /\ r.render = <<SPACE, SPACE, SPACE, SPACE, SPACE, SPACE, SPACE, SPACE>>
                  /\ editorRowCxtoRx(r, 1) = 8

\* A line of nine bytes whose last byte is a tab that starts at visual
\* column 8 and ends at 16.
C8_Witness ==
    /\ pc = "key"
    /\ E.numrows = 1
    /\ E.row[1].size = 9
    /\ E.row[1].chars[1] = TAB
    /\ E.row[1].chars[9] = TAB
    /\ E.row[1].rsize = 16
    /\ E.rx = 16

\* C9: deleteCharBackward (Backspace, Ctrl-H) with the cursor at row 0,
\* column 0 changes neither the lines, the line count, the cursor nor the
\* dirty flag.
C9_DeleteAtStartIsNoop ==
    [][(pc = "key" /\ c' \in {BACKSPACE, CTRL_H} /\ E.cx = 0 /\ E.cy = 0)
          => /\ E'.row = E.row
             /\ E'.numrows = E.numrows
             /\ E'.cx = 0 /\ E'.cy = 0
             /\ E'.dirty = E.dirty]_vars

\* Backspace has just been handled at row 0, column 0 of a loaded document
\* that no edit has touched.
C9_Witness ==
    /\ pc = "refresh"
    /\ c = BACKSPACE
    /\ E.cx = 0 /\ E.cy = 0
    /\ E.numrows = 2
    /\ E.dirty = 0

\* The input that is pending starts with the bytes of seq.
Pressed(seq) == Len(stdin) >= Len(seq) /\ SubSeq(stdin, 1, Len(seq)) = seq

\* C10: the decoding table.  A step that reads a key from the pending input
\* returns Home for ESC [ 1 ~ and ESC [ 7 ~, Delete for ESC [ 3 ~, End for
\* ESC [ 4 ~ and ESC [ 8 ~, PageUp for ESC [ 5 ~, PageDown for ESC [ 6 ~,
\* the arrows for ESC [ A/B/C/D, Home for ESC [ H and ESC O H, End for
\* ESC [ F and ESC O F, and a first byte other than ESC as itself.
C10_DecodingTable ==
    [][(pc = "key" /\ c' # NoKey) =>
          /\ Pressed(<<ESC, LBRACKET, 49, TILDE>>) => c' = HOME_KEY
          /\ Pressed(<<ESC, LBRACKET, 55, TILDE>>) => c' = HOME_KEY
          /\ Pressed(<<ESC, LBRACKET, 51, TILDE>>) => c' = DEL_KEY
          /\ Pressed(<<ESC, LBRACKET, 52, TILDE>>) => c' = END_KEY
          /\ Pressed(<<ESC, LBRACKET, 56, TILDE>>) => c' = END_KEY
          /\ Pressed(<<ESC, LBRACKET, 53, TILDE>>) => c' = PAGE_UP
          /\ Pressed(<<ESC, LBRACKET, 54, TILDE>>) => c' = PAGE_DOWN
          /\ Pressed(<<ESC, LBRACKET, LETTER_A>>) => c' = ARROW_UP
          /\ Pressed(<<ESC, LBRACKET, LETTER_B>>) => c' = ARROW_DOWN
          /\ Pressed(<<ESC, LBRACKET, LETTER_C>>) => c' = ARROW_RIGHT
          /\ Pressed(<<ESC, LBRACKET, LETTER_D>>) => c' = ARROW_LEFT
          /\ Pressed(<<ESC, LBRACKET, LETTER_H>>) => c' = HOME_KEY
          /\ Pressed(<<ESC, LETTER_O, LETTER_H>>) => c' = HOME_KEY
          /\ Pressed(<<ESC, LBRACKET, LETTER_F>>) => c' = END_KEY
          /\ Pressed(<<ESC, LETTER_O, LETTER_F>>) => c' = END_KEY
          /\ (stdin # <<>> /\ Head(stdin) # ESC) =>
                /\ ByteOf(c') = Head(stdin)
                /\ Head(stdin) < 128 => c' = Head(stdin)]_vars

\* ESC O F was pending and has been read as End, nothing left unread.
C10_Witness ==
    /\ pc = "refresh"
    /\ c = END_KEY
    /\ stdin = <<>>
    /\ E.cx = 0

\* The sequences of the decoding table.
KeyTable ==
    { <<ESC, LBRACKET, 49, TILDE>>, <<ESC, LBRACKET, 51, TILDE>>,
      <<ESC, LBRACKET, 52, TILDE>>, <<ESC, LBRACKET, 53, TILDE>>,
      <<ESC, LBRACKET, 54, TILDE>>, <<ESC, LBRACKET, 55, TILDE>>,
      <<ESC, LBRACKET, 56, TILDE>>,
      <<ESC, LBRACKET, LETTER_A>>, <<ESC, LBRACKET, LETTER_B>>,
      <<ESC, LBRACKET, LETTER_C>>, <<ESC, LBRACKET, LETTER_D>>,
      <<ESC, LBRACKET, LETTER_H>>, <<ESC, LBRACKET, LETTER_F>>,
      <<ESC, LETTER_O, LETTER_H>>, <<ESC, LETTER_O, LETTER_F>> }

\* ESC is pending and what follows it is no sequence of the table: the
\* input ends (a timed-out read), a read fails, or the bytes are others.
EscapeAlone ==
    /\ stdin # <<>> /\ Head(stdin) = ESC
    /\ \A seq \in KeyTable : ~Pressed(seq)

\* C11: once ESC has been read, every continuation outside the decoding
\* table gives the one key ESC: the process goes on to the next frame (it
\* neither dies nor stops), and the decoder has made at most three reads
\* after the ESC, taking at most four items of input.
C11_EscapeFallback ==
    [][(pc = "key" /\ EscapeAlone) =>
          /\ c' = ESC
          /\ pc' = "refresh"
          /\ editorReadKey(stdin).reads <= 3
          /\ Len(stdin) - Len(stdin') <= 4
          /\ Len(stdin) - Len(stdin') <= 1 + editorReadKey(stdin).reads]_vars

\* An escape sequence outside the table has been read as ESC, three bytes
\* taken and the letter that followed them left pending.
C11_Witness ==
    /\ pc = "refresh"
    /\ c = ESC
    /\ stdin = <<Letter>>

Warning == "WARNING! File has unsaved changes. Press Ctrl Q %d more times to quit."

\* C12: with a dirty document and N = KILO_QUIT_TIMES, the quit command
\* finds between 1 and N presses still owed (N less the consecutive quit
\* commands so far); each of the first N - 1 leaves the process running and
\* lowers the counter by one, and the Nth terminates the process.
C12_QuitDebounce ==
    [][(pc = "key" /\ c' = CTRL_Q /\ E.dirty # 0) =>
          /\ quit_times \in 1..KILO_QUIT_TIMES
          /\ quit_times > 1 => pc' = "refresh" /\ quit_times' = quit_times - 1
          /\ quit_times = 1 => pc' = "exited"]_vars

\* C13: every key other than the quit command, once handled, leaves the
\* quit counter at N, and the quit command that follows on a dirty document
\* does not terminate the process but starts the run of N again.
C13_OtherKeyResetsQuit ==
    [][/\ (pc \in {"key", "prompt_key"} /\ pc' = "refresh" /\ c' # CTRL_Q)
            => quit_times' = KILO_QUIT_TIMES
       /\ (pc = "key" /\ c' = CTRL_Q /\ E.dirty # 0 /\ quit_times = KILO_QUIT_TIMES)
            => /\ pc' = "refresh"
               /\ quit_times' = KILO_QUIT_TIMES - 1
               /\ E'.statusmsg = <<Warning, KILO_QUIT_TIMES>>]_vars

\* Two quit commands were refused (the warning of the second is still the
\* status message), then Escape was pressed: the counter is N again.
C13_Witness ==
    /\ pc = "refresh"
    /\ c = ESC
    /\ E.dirty # 0
    /\ E.statusmsg = <<Warning, KILO_QUIT_TIMES - 1>>
    /\ quit_times = KILO_QUIT_TIMES

\* C14: with a document that is not dirty one quit command terminates the
\* process, whatever the quit counter.
C14_CleanQuitIsImmediate ==
    [][(pc = "key" /\ c' = CTRL_Q /\ E.dirty = 0) => pc' = "exited"]_vars

\* The process has ended on a quit command right after a save of an edited
\* document succeeded.
C14_Witness ==
    /\ pc = "exited"
    /\ c = CTRL_Q
    /\ E.dirty = 0
    /\ E.numrows > 0
    /\ E.statusmsg[1] = "%d bytes written to disk"

\* The lines editorOpen makes of each file.
LinesOf == [bytes \in Files |-> editorOpen(initEditor(1, 1), FileName, bytes).row]

\* A file that is a sequence of lines, each ended by one '\n', without '\r'.
EndedLines(bytes) ==
    /\ \A j \in 1..Len(bytes) : bytes[j] # CR
    /\ bytes = <<>> \/ bytes[Len(bytes)] = LF

\* C15: a file of lines each ended by one '\n', without '\r', that is
\* loaded and saved without an edit is written back byte for byte.
C15_RoundTrip ==
    E.save = "ok" =>
        \A bytes \in Files :
            (EndedLines(bytes) /\ E.row = LinesOf[bytes]) => E.written = bytes

\* The file "a\n\t\n" has been loaded and saved: those four bytes were
\* written.
C15_Witness ==
    /\ pc = "refresh"
    /\ c = CTRL_S
    /\ E.save = "ok"
    /\ E.dirty = 0
    /\ E.written = <<Letter, LF, TAB, LF>>

\* The raw bytes of the first k lines, each followed by '\n'.
RECURSIVE Terminated(_, _)
Terminated(rows, k) ==
    IF k = 0 THEN <<>> ELSE Terminated(rows, k - 1) \o rows[k].chars \o <<LF>>

\* C16: the bytes a save hands to write() are the raw bytes of the lines in
\* order, each followed by one '\n', the last included: their count is the
\* sum of length + 1 (the count the message of a successful save reports),
\* an empty document gives no bytes, and the lines of a file that did not
\* end in '\n' are written with one at the end.
C16_SaveWritesLines ==
    E.save \in {"ok", "write"} =>
        /\ E.written = Terminated(E.row, Len(E.row))
        /\ Len(E.written) = SumSizes(E.row, 1) + E.numrows
        /\ E.numrows = 0 => E.written = <<>>
        /\ E.save = "ok" =>
               E.statusmsg = <<"%d bytes written to disk", Len(E.written)>>
        /\ \A bytes \in Files :
               (bytes # <<>> /\ bytes[Len(bytes)] # LF /\ E.row = LinesOf[bytes])
                   => E.written = bytes \o <<LF>>

\* A document typed from nothing, an empty line and the line "a<TAB>", has
\* been saved under the name given at the prompt.
C16_Witness ==
    /\ pc = "refresh"
    /\ c = CR
    /\ E.save = "ok"
    /\ E.numrows = 2
    /\ E.written = <<LF, Letter, TAB, LF>>

\* A step in which editorSave ran and did not succeed.
SaveFailed == E'.save \in {"open", "ftruncate", "write"}

CantSave == "Can't save! I/O error: %s"

\* C17: whenever a save fails, at open(), ftruncate() or write(), the lines,
\* the line count and the dirty flag are as before and the status message
\* is set to a report of the failure.
C17_FailedSaveReports ==
    [][SaveFailed =>
          /\ E'.row = E.row
          /\ E'.numrows = E.numrows
          /\ E'.dirty = E.dirty
          /\ E'.statusmsg[1] = CantSave]_vars

\* C18: every insertChar, insertNewline and deleteCharBackward that changes
\* a line or the line count leaves the dirty flag set, from every document,
\* clean ones included, and in every sequence.
C18_EditSetsDirty ==
    [][(E'.row # E.row \/ E'.numrows # E.numrows) => E'.dirty # 0]_vars

\* The Delete key has removed the only byte of a loaded line: the document
\* is one empty line and dirty.
C18_Witness ==
    /\ pc = "refresh"
    /\ c = DEL_KEY
    /\ E.numrows = 1
    /\ E.row[1].size = 0
    /\ E.cx = 0 /\ E.cy = 0
    /\ E.dirty # 0

\* C19: the dirty flag is clear after the load and after a successful save,
\* and nothing else clears it: it goes from set to clear only in a step in
\* which a save succeeds, whatever keys come in between (navigation, edits,
\* failed saves, the prompt cancelled, refused quits).
C19_DirtyClearedOnlyBySave ==
    /\ E.dirty = 0
    /\ [][/\ E'.save = "ok" => E'.dirty = 0
          /\ (E.dirty # 0 /\ E'.dirty = 0) =>
                 /\ pc \in {"key", "prompt_key"}
                 /\ c' \in {CTRL_S, CR}
                 /\ E'.save = "ok"]_vars

\* A save of an edited document has failed in write(): the document is
\* still dirty.
C19_Witness ==
    /\ pc = "refresh"
    /\ c = CTRL_S
    /\ E.save = "write"
    /\ E.dirty # 0

\* C20: insertChar(c) on the end-of-file row first appends one empty line;
\* in every case the line at cy is afterwards the old line (the empty line
\* on the end-of-file row) with the byte c put in at index cx and the bytes
\* from cx on moved right by one, every other line is as before, cx is one
\* more and cy is unchanged.
C20_InsertChar ==
    [][(pc = "key" /\ c' # NoKey /\ c' \notin Commands) =>
          LET atEnd == E.cy = E.numrows
              old == IF atEnd THEN <<>> ELSE E.row[E.cy + 1].chars
              n == IF atEnd THEN E.numrows + 1 ELSE E.numrows
          IN  /\ E.cy < n
              /\ E'.numrows = n /\ Len(E'.row) = n
              /\ E'.row[E.cy + 1].chars =
                     SubSeq(old, 1, E.cx) \o <<ByteOf(c')>> \o SubSeq(old, E.cx + 1, Len(old))
              /\ E'.row[E.cy + 1].size = Len(old) + 1
              /\ \A i \in 1..E.numrows : i # E.cy + 1 => E'.row[i] = E.row[i]
              /\ E'.cx = E.cx + 1
              /\ E'.cy = E.cy]_vars

\* A letter has been typed at column 0 of the loaded line "<TAB>": the line
\* is "a<TAB>" and the cursor is at column 1.
C20_Witness ==
    /\ pc = "refresh"
    /\ c = Letter
    /\ E.numrows = 1
    /\ E.row[1].chars = <<Letter, TAB>>
    /\ E.cx = 1 /\ E.cy = 0

\* C21: insertNewline makes the line count one more and puts the cursor at
\* column 0 of row cy + 1.  With cx = 0 the line at cy is afterwards empty
\* and the old line, if there is one, is at cy + 1; with cx > 0 the line at
\* cy keeps its bytes [0, cx) and the line at cy + 1 holds its bytes
\* [cx, length), the two together being the old line.  The lines above cy
\* are as before and the lines below cy are as before, one index further.
C21_InsertNewline ==
    [][(pc = "key" /\ c' = CR) =>
          LET old == IF E.cy < E.numrows THEN E.row[E.cy + 1].chars ELSE <<>>
              left == E'.row[E.cy + 1]
              right == E'.row[E.cy + 2]
          IN  /\ E'.numrows = E.numrows + 1 /\ Len(E'.row) = E.numrows + 1
              /\ E'.cx = 0 /\ E'.cy = E.cy + 1
              /\ \A i \in 1..E.cy : E'.row[i] = E.row[i]
              /\ \A i \in (E.cy + 2)..E.numrows : E'.row[i + 1] = E.row[i]
              /\ left.size = Len(left.chars)
              /\ IF E.cx = 0
                 THEN /\ left.chars = <<>>
                      /\ E.cy < E.numrows => right = E.row[E.cy + 1]
                 ELSE /\ left.chars = SubSeq(old, 1, E.cx)
                      /\ right.chars = SubSeq(old, E.cx + 1, Len(old))
                      /\ right.size = Len(right.chars)
                      /\ left.chars \o right.chars = old]_vars

\* C22: deleteCharBackward (Backspace, Ctrl-H) with cx > 0 removes the byte
\* at index cx - 1 of the current line, and nothing else, and makes cx one
\* less; with cx = 0 on a line cy > 0 of the document it makes line cy - 1
\* the old line cy - 1 followed by the old line cy, removes line cy so that
\* the line count is one less, and leaves the cursor on row cy - 1 at the
\* column that was the length of line cy - 1.
C22_DeleteCharBackward ==
    [][(pc = "key" /\ c' \in {BACKSPACE, CTRL_H}) =>
          /\ E.cx > 0 =>
                 LET old == E.row[E.cy + 1].chars
                     new == E'.row[E.cy + 1]
                 IN  /\ new.chars = SubSeq(old, 1, E.cx - 1) \o SubSeq(old, E.cx + 1, Len(old))
                     /\ new.size = Len(old) - 1
                     /\ E'.numrows = E.numrows /\ Len(E'.row) = E.numrows
                     /\ \A i \in 1..E.numrows : i # E.cy + 1 => E'.row[i] = E.row[i]
                     /\ E'.cx = E.cx - 1 /\ E'.cy = E.cy
          /\ (E.cx = 0 /\ E.cy > 0 /\ E.cy < E.numrows) =>
                 LET prev == E.row[E.cy].chars
                     cur == E.row[E.cy + 1].chars
                 IN  /\ E'.row[E.cy].chars = prev \o cur
                     /\ E'.row[E.cy].size = Len(prev) + Len(cur)
                     /\ E'.numrows = E.numrows - 1 /\ Len(E'.row) = E.numrows - 1
                     /\ \A i \in 1..(E.cy - 1) : E'.row[i] = E.row[i]
                     /\ \A i \in (E.cy + 2)..E.numrows : E'.row[i - 1] = E.row[i]
                     /\ E'.cx = Len(prev) /\ E'.cy = E.cy - 1]_vars

\* Backspace at the start of the line "<TAB>" below the line "a" has joined
\* the two: the document is the one line "a<TAB>", the cursor after the "a".
C22_Witness ==
    /\ pc = "refresh"
    /\ c = BACKSPACE
    /\ E.numrows = 1
    /\ E.row[1].chars = <<Letter, TAB>>
    /\ E.cx = 1 /\ E.cy = 0

\* C23: with the cursor past the last line of the document (cy >= numrows)
\* deleteCharBackward does nothing: the lines, the line count, the cursor
\* and the dirty flag are as before, and no slot of E.row was accessed.
C23_DeleteBelowEndIsNoop ==
    [][(pc = "key" /\ c' \in {BACKSPACE, CTRL_H} /\ E.cy >= E.numrows) =>
          /\ E'.row = E.row
          /\ E'.numrows = E.numrows
          /\ E'.cx = E.cx /\ E'.cy = E.cy
          /\ E'.dirty = E.dirty
          /\ ~E'.oob]_vars

\* C24: the Right arrow at the end of a line puts the cursor at column 0 of
\* the next row if the document has a next line, and leaves the cursor
\* where it is if it has none; the Left arrow at column 0 puts the cursor
\* at the end of the previous line if there is one, and leaves it at (0, 0)
\* if there is none.
C24_ArrowsWrap ==
    [][/\ (pc = "key" /\ c' = ARROW_RIGHT /\ E.cy < E.numrows
                      /\ E.cx = E.row[E.cy + 1].size) =>
              IF E.cy + 1 < E.numrows
              THEN E'.cx = 0 /\ E'.cy = E.cy + 1
              ELSE E'.cx = E.cx /\ E'.cy = E.cy
       /\ (pc = "key" /\ c' = ARROW_LEFT /\ E.cx = 0) =>
              IF E.cy > 0 /\ E.cy - 1 < E.numrows
              THEN E'.cx = E.row[E.cy].size /\ E'.cy = E.cy - 1
              ELSE E'.cx = E.cx /\ E'.cy = E.cy]_vars

\* C25: whenever the process has ended through exit() after the terminal
\* was put in raw mode (Ctrl-Q obeyed, a failed read(), the window size not
\* found, the file not opened), the restoration of the terminal mode was
\* attempted: disableRawMode has called tcsetattr with the saved mode.
C25_TerminalRestored ==
    (pc \in {"exited", "died"} /\ E.term.raw) => E.term.restored

\* read() has failed at the save-as prompt, in raw mode, and the saved
\* terminal mode was handed back to tcsetattr.
C25_Witness ==
    /\ pc = "died"
    /\ E.statusmsg[1] = "Save as: %s (ESC to cancel)"
    /\ E.term.raw
    /\ E.term.restored

\* C26: a frame shows a status message only if it is the current message,
\* the message is not empty and fewer than 5 seconds lie between its
\* setting and the frame.  Setting a message replaces the old one as a
\* whole and restarts the 5 seconds: whenever the message changes its time
\* is the time of the change, and a refused Ctrl-Q and a frame of the
\* save-as prompt leave exactly their own message, set at that time.
C26_StatusMessageWindow ==
    [][/\ pc \in {"refresh", "prompt_refresh"} =>
              (E'.bar # NoBar =>
                   /\ E'.bar = E'.statusmsg
                   /\ E'.statusmsg[1] # ""
                   /\ E'.time - E'.statusmsg_time < MessageSeconds)
       /\ E'.statusmsg # E.statusmsg => E'.statusmsg_time = E'.time
       /\ (pc = "key" /\ c' = CTRL_Q /\ pc' = "refresh") =>
              /\ E'.statusmsg = <<Warning, quit_times>>
              /\ E'.statusmsg_time = E'.time
       /\ pc = "prompt_refresh" =>
              /\ E'.statusmsg = <<"Save as: %s (ESC to cancel)", buf>>
              /\ E'.statusmsg_time = E'.time]_vars

\* A frame shows the quit warning 5 seconds or more after the help message
\* was set at the start: the warning was set later, less than 5 seconds
\* before the frame.
C26_Witness ==
    /\ pc = "key"
    /\ E.bar = E.statusmsg
    /\ E.statusmsg[1] = Warning
    /\ E.time >= StartTime + MessageSeconds

\* C27, as stated: a step that reads a key starting with the escape byte
\* makes at most two further read() calls, and so takes at most three
\* bytes from the input.
C27_TwoReadsAfterEscape ==
    [][(pc = "key" /\ c' # NoKey /\ stdin # <<>> /\ Head(stdin) = ESC) =>
          /\ editorReadKey(stdin).reads <= 2
          /\ Len(stdin) - Len(stdin') <= 3]_vars

\* C27, amended: a step that reads a key starting with the escape byte
\* makes at most three further read() calls and takes at most four bytes;
\* it makes the third call only when the two bytes after the escape byte
\* are "[" and a digit.
C27_ThreeReadsAfterEscape ==
    [][(pc = "key" /\ c' # NoKey /\ stdin # <<>> /\ Head(stdin) = ESC) =>
          LET reads == editorReadKey(stdin).reads
              taken == Len(stdin) - Len(stdin')
          IN  /\ reads <= 3
              /\ taken <= reads + 1
              /\ (reads = 3 \/ taken = 4) =>
                     /\ Len(stdin) >= 3
                     /\ stdin[2] = LBRACKET
                     /\ stdin[3] >= DIGIT_0 /\ stdin[3] <= DIGIT_9]_vars

\* ESC [ 3 ~ was pending and has been read as Delete: four bytes, the
\* fourth taken by the third read() after the escape byte.
C27_Witness ==
    /\ pc = "refresh"
    /\ c = DEL_KEY
    /\ stdin = <<>>
    /\ E.cx = 0 /\ E.cy = 0

\* C28: an edit addressed out of range changes nothing.  editorRowInsertChar
\* with at outside 0..length, editorRowDelChar with at outside 0..length-1,
\* and either of them on a row index beyond the document, leave every
\* line, the line count and the dirty flag as they were.
C28_OutOfRangeEditIsNoop ==
    [][LET beyond == E.cy >= E.numrows
           length == IF beyond THEN 0 ELSE E.row[E.cy + 1].size
           same == /\ E'.row = E.row
                   /\ E'.numrows = E.numrows
                   /\ E'.dirty = E.dirty
       IN  /\ (pc' = "editorRowInsertChar" /\ (beyond \/ c' < 0 \/ c' > length)) => same
           /\ (pc' = "editorRowDelChar" /\ (beyond \/ c' < 0 \/ c' >= length)) => same]_vars

\* C29: editorInsertRow (insertLine) with at outside 0..numrows and
\* editorDelRow (deleteLine) with at outside 0..numrows-1 change nothing:
\* every line, the line count and the dirty flag are as before the call.
C29_OutOfRangeLineIsNoop ==
    [][LET same == /\ E'.row = E.row
                   /\ E'.numrows = E.numrows
                   /\ E'.dirty = E.dirty
       IN  /\ (pc' = "editorInsertRow" /\ (c' < 0 \/ c' > E.numrows)) => same
           /\ (pc' = "editorDelRow" /\ (c' < 0 \/ c' > E.numrows - 1)) => same]_vars

\* editorDelRow was called with at = numrows on a loaded document of two
\* lines: the document still has its two lines and is clean.
C29_Witness ==
    /\ pc = "editorDelRow"
    /\ c = E.numrows
    /\ E.numrows = 2
    /\ E.dirty = 0

\* C30: frames and key reads alternate, a frame first.  The process starts
\* at a frame (or has ended before its loop); a key is read only when a
\* frame was drawn since the last key (c is NoKey then); a step that reads
\* a key, in the main loop or in the save-as prompt, a refused Ctrl-Q
\* included, leads to a frame or ends the process; and a frame leads to
\* the read of a key, not to another frame.
C30_FramesAndKeysAlternate ==
    /\ pc \in {"refresh", "died"} /\ c = NoKey
    /\ [][/\ pc \in {"key", "prompt_key"} => c = NoKey
          /\ (pc \in {"key", "prompt_key"} /\ c' # NoKey) =>
                 pc' \in {"refresh", "prompt_refresh", "exited", "crashed"}
          /\ pc \in {"refresh", "prompt_refresh"} =>
                 (pc' \in {"key", "prompt_key"} /\ c' = NoKey)]_vars

\* A letter was typed at the save-as prompt and the frame that shows it has
\* been drawn: the prompt waits for its next key.
C30_Witness ==
    /\ pc = "prompt_key"
    /\ c = NoKey
    /\ buf = <<Letter>>

\* The keys that move the cursor or do nothing.
MoveKeys ==
    {ARROW_LEFT, ARROW_RIGHT, ARROW_UP, ARROW_DOWN, HOME_KEY, END_KEY,
     PAGE_UP, PAGE_DOWN, ESC, CTRL_L}

\* C31: the four arrows, Home, End, PageUp, PageDown, Escape and Ctrl-L
\* never change the document (line count, raw and render bytes of every
\* line) or the dirty flag, in any state, the states with the cursor below
\* the end-of-file row included; of the editor's fields they change at most
\* the cursor.
C31_MoveKeysKeepDocument ==
    [][(pc = "key" /\ c' \in MoveKeys) =>
          /\ E'.numrows = E.numrows
          /\ E'.row = E.row
          /\ E'.dirty = E.dirty
          /\ E'.filename = E.filename
          /\ E'.statusmsg = E.statusmsg
          /\ E'.rowoff = E.rowoff /\ E'.coloff = E.coloff
          /\ E'.screenrows = E.screenrows /\ E'.screencols = E.screencols]_vars

\* PageDown has moved the cursor of an edited document.
C31_Witness ==
    /\ pc = "refresh"
    /\ c = PAGE_DOWN
    /\ E.dirty # 0
    /\ E.numrows > 0
    /\ E.cy > 0

\* C32: no sequence of key events makes insertChar, insertNewline,
\* deleteCharBackward or the Left arrow read or write a line slot outside
\* the document: after each of them, every row index it dereferenced was
\* in 0..numrows-1 at the moment of the access.
C32_AccessesInDocument ==
    (/\ pc \in {"refresh", "crashed"}
     /\ \/ c \in {CR, BACKSPACE, CTRL_H, DEL_KEY, ARROW_LEFT}
        \/ c \notin Commands) => ~E.oob

\* C33: the Down arrow moves the cursor down exactly one row when it is on
\* a line of the document (cy < numrows) and leaves the row as it is when
\* cy = numrows, whatever the column cx and the lengths of the lines.
C33_DownArrow ==
    [][(pc = "key" /\ c' = ARROW_DOWN) =>
          /\ E.cy < E.numrows => E'.cy = E.cy + 1
          /\ E.cy = E.numrows => E'.cy = E.cy]_vars

\* C34: the Delete key leaves the cursor (cx, cy) where it is, at every
\* cursor position: inside a line it removes the byte at index cx; at the
\* end of a line that has a following line it joins that line onto the
\* current one; at the end of the last line and on the end-of-file row it
\* changes neither the document nor the cursor.
C34_DeleteKey ==
    [][(pc = "key" /\ c' = DEL_KEY /\ E.cy <= E.numrows) =>
          /\ E'.cx = E.cx /\ E'.cy = E.cy
          /\ (E.cy < E.numrows /\ E.cx < E.row[E.cy + 1].size) =>
                 LET old == E.row[E.cy + 1].chars
                 IN  /\ E'.row[E.cy + 1].chars =
                            SubSeq(old, 1, E.cx) \o SubSeq(old, E.cx + 2, Len(old))
                     /\ E'.numrows = E.numrows
                     /\ \A i \in 1..E.numrows : i # E.cy + 1 => E'.row[i] = E.row[i]
          /\ (E.cy + 1 < E.numrows /\ E.cx = E.row[E.cy + 1].size) =>
                 /\ E'.row[E.cy + 1].chars = E.row[E.cy + 1].chars \o E.row[E.cy + 2].chars
                 /\ E'.numrows = E.numrows - 1
                 /\ \A i \in 1..E.cy : E'.row[i] = E.row[i]
                 /\ \A i \in (E.cy + 3)..E.numrows : E'.row[i - 1] = E.row[i]
          /\ (\/ E.cy = E.numrows
              \/ E.cy + 1 = E.numrows /\ E.cx = E.row[E.cy + 1].size) =>
                 /\ E'.row = E.row /\ E'.numrows = E.numrows]_vars

\* The document and the cursor of e are those of d.
Restored(e, d) ==
    /\ e.numrows = d.numrows
    /\ e.row = d.row
    /\ e.cx = d.cx /\ e.cy = d.cy
    /\ ~e.oob /\ ~e.fault

\* C35: with the cursor on a line of the document (cy < numrows,
\* 0 <= cx <= length), insertNewline immediately followed by
\* deleteCharBackward gives back the document (line count, raw and render
\* bytes of every line) and the cursor.  It is stated of every reachable
\* state in which a key is awaited, and of every Enter key handled: the
\* Backspace handled next restores what was there before the Enter.
C35_NewlineThenBackspace ==
    /\ [](\A g \in Indeterminate :
            (pc = "key" /\ E.cy < E.numrows /\ E.cx <= E.row[E.cy + 1].size) =>
                Restored(editorDeleteChar(editorInsertNewline(Start, g), g), E))
    /\ [][\A g \in Indeterminate :
            (pc = "key" /\ c' = CR /\ E.cy < E.numrows /\ E.cx <= E.row[E.cy + 1].size) =>
                Restored(editorDeleteChar(editorRefreshScreen(E'), g), E)]_vars

\* Enter has split the line "a<TAB>" of a loaded file after its first byte.
C35_Witness ==
    /\ pc = "refresh"
    /\ c = CR
    /\ E.numrows = 2
    /\ E.row[1].chars = <<Letter>>
    /\ E.row[2].chars = <<TAB>>
    /\ E.cx = 0 /\ E.cy = 1
    /\ E.filename # NoName

\* The bytes typed in the runs.
Typed == {Letter, TAB}

\* C36: in every reachable state, the cursor on the end-of-file row
\* included, insertChar(c) immediately followed by deleteCharBackward gives
\* back the document (line count and every line's bytes) and the cursor.
C36_InsertThenBackspace ==
    (pc = "key" /\ E.cy <= E.numrows) =>
        \A g \in Indeterminate, ch \in Typed :
            Restored(editorDeleteChar(editorInsertChar(Start, g, ch), g), E)

\* The document of e is that of d with one empty line appended, and the
\* cursor of e is that of d.
EmptyLineAppended(e, d) ==
    /\ e.numrows = d.numrows + 1
    /\ e.row = Append(d.row, NewRow(<<>>))
    /\ e.cx = d.cx /\ e.cy = d.cy
    /\ ~e.oob /\ ~e.fault

\* C36, amended: with the cursor on a line of the document (cy < numrows,
\* 0 <= cx <= length), insertChar(c) immediately followed by
\* deleteCharBackward gives back the document and the cursor; on the
\* end-of-file row (cy = numrows, cx = 0) the pair gives back the cursor and
\* leaves the document with one empty line appended.  It is stated of every
\* reachable state in which a key is awaited, and of every byte typed: the
\* Backspace handled next.
C36_InsertThenBackspaceOnLine ==
    /\ [](\A g \in Indeterminate, ch \in Typed :
            /\ (pc = "key" /\ E.cy < E.numrows /\ E.cx <= E.row[E.cy + 1].size) =>
                   Restored(editorDeleteChar(editorInsertChar(Start, g, ch), g), E)
            /\ (pc = "key" /\ E.cy = E.numrows /\ E.cx = 0) =>
                   EmptyLineAppended(editorDeleteChar(editorInsertChar(Start, g, ch), g), E))
    /\ [][\A g \in Indeterminate :
            /\ (pc = "key" /\ c' \in Typed /\ E.cy < E.numrows /\ E.cx <= E.row[E.cy + 1].size) =>
                   Restored(editorDeleteChar(editorRefreshScreen(E'), g), E)
            /\ (pc = "key" /\ c' \in Typed /\ E.cy = E.numrows /\ E.cx = 0) =>
                   EmptyLineAppended(editorDeleteChar(editorRefreshScreen(E'), g), E)]_vars

\* A tab has been typed on the end-of-file row of the empty document.
C36_Witness ==
    /\ pc = "refresh"
    /\ c = TAB
    /\ E.filename = NoName
    /\ E.numrows = 1
    /\ E.row[1].chars = <<TAB>>
    /\ E.cx = 1 /\ E.cy = 0

\* The number of items of the pending input a key step has taken.
Taken == Len(stdin) - Len(stdin')

\* C37: the decoder discards no input.  A step that reads a key takes one
\* byte for a literal key, the whole sequence for a sequence of the
\* decoding table, and the ESC byte alone for a literal Escape: of the
\* input ESC a b, the first key read is Escape and a, b are left to be read
\* as the next two keys.
C37_NoInputDiscarded ==
    [][(pc = "key" /\ c' # NoKey /\ stdin # <<>>) =>
          /\ Head(stdin) # ESC => Taken = 1
          /\ \A seq \in KeyTable : Pressed(seq) => Taken = Len(seq)
          /\ EscapeAlone => (c' = ESC /\ Taken = 1)
          /\ stdin = <<ESC, Letter, Letter>> => (c' = ESC /\ stdin' = <<Letter, Letter>>)]_vars

\* What the decoder takes with an ESC that starts no sequence of the table:
\* the ESC and what its further reads found, two reads, or three after
\* ESC [ digit, a failed read being the last.
EscapeTaken ==
    LET n == Len(stdin)
        failed(i) == n >= i /\ stdin[i] = ReadErr
        third == /\ n >= 3 /\ ~failed(2) /\ ~failed(3)
                 /\ stdin[2] = LBRACKET
                 /\ stdin[3] >= DIGIT_0 /\ stdin[3] <= DIGIT_9
        most == IF failed(2) THEN 2 ELSE IF third THEN 4 ELSE 3
    IN  IF n < most THEN n ELSE most

\* C37, amended: a step that reads a key takes one byte for a literal key
\* and the whole sequence for a sequence of the decoding table; for a
\* literal Escape it takes the ESC byte and every byte it read after it (up
\* to two, or three after ESC [ digit), which are discarded: of the input
\* ESC a b the one key read is Escape and nothing is left.
C37_OnlyEscapeTailDiscarded ==
    [][(pc = "key" /\ c' # NoKey /\ stdin # <<>>) =>
          /\ Head(stdin) # ESC => Taken = 1
          /\ \A seq \in KeyTable : Pressed(seq) => Taken = Len(seq)
          /\ EscapeAlone => (c' = ESC /\ Taken = EscapeTaken)
          /\ stdin' = SubSeq(stdin, Taken + 1, Len(stdin))
          /\ stdin = <<ESC, Letter, Letter>> => (c' = ESC /\ stdin' = <<>>)]_vars

\* A letter was typed and the ESC pending after it, with the bytes that
\* followed it, has been read as the one key Escape: nothing is left to
\* read and the document holds the letter alone.
C37_Witness ==
    /\ pc = "refresh"
    /\ c = ESC
    /\ stdin = <<>>
    /\ E.numrows = 1
    /\ E.row[1].chars = <<Letter>>
    /\ E.cx = 1 /\ E.cy = 0

SaveAs == "Save as: %s (ESC to cancel)"

\* The document, the cursor and the dirty flag are the same before and
\* after the step, there is no filename and nothing is written.
NothingSaved ==
    /\ E'.filename = NoName
    /\ E'.save = "none" /\ E'.written = <<>>
    /\ E'.numrows = E.numrows /\ E'.row = E.row
    /\ E'.cx = E.cx /\ E'.cy = E.cy
    /\ E'.dirty = E.dirty

\* C38: the save command on a document without a filename opens the
\* save-as prompt, which shows its message with the name typed so far.
\* Escape at the prompt, whatever has been typed, cancels the save: there
\* is still no filename, nothing is written, the document, the cursor and
\* the dirty flag are as they were, the status message is "Save aborted"
\* and the main loop goes on.  Enter with nothing typed stays in the
\* prompt.  No other key of the prompt changes the document either.
C38_PromptEscapeCancels ==
    [][/\ (pc = "key" /\ c' = CTRL_S /\ E.filename = NoName) =>
              (pc' = "prompt_refresh" /\ buf' = <<>> /\ NothingSaved)
       /\ pc = "prompt_refresh" =>
              /\ pc' = "prompt_key"
              /\ E'.statusmsg = <<SaveAs, buf>> /\ E'.bar = E'.statusmsg
              /\ NothingSaved
       /\ (pc = "prompt_key" /\ c' = ESC) =>
              /\ pc' = "refresh"
              /\ E'.statusmsg = <<"Save aborted", 0>>
              /\ NothingSaved
       /\ (pc = "prompt_key" /\ c' = CR /\ buf = <<>>) =>
              (pc' = "prompt_refresh" /\ buf' = <<>> /\ NothingSaved)
       /\ (pc = "prompt_key" /\ c' # CR) => NothingSaved]_vars

\* Escape has cancelled the save of a typed line; the frame drawn next
\* shows "Save aborted".
C38_Witness ==
    /\ pc = "key"
    /\ E.statusmsg = <<"Save aborted", 0>>
    /\ E.bar = E.statusmsg
    /\ E.filename = NoName
    /\ E.numrows = 1
    /\ E.dirty # 0

====
